---- MODULE Spec2Model ----
(***************************************************************************)
(* A model of surround-to-eac3: the stream-action planner, the per-file    *)
(* job (process_single_file / process_file_with_ffmpeg) and the scheduler  *)
(* of main.py (thread pool, progress slots, outcome counters).             *)
(*                                                                         *)
(* Five specifications share the variables:                                *)
(*   SpecPlan      the planner as a pure function over bounded stream      *)
(*                 lists;                                                  *)
(*   SpecProgress  the read loop over bounded sequences of ffmpeg's lines; *)
(*   SpecPaths     discovery and output path resolution over bounded       *)
(*                 listings;                                               *)
(*   Spec          a run of main(): discovery, pool, jobs, filesystem;     *)
(*   SpecLive      such a run without interrupt, with weak fairness.       *)
(***************************************************************************)
EXTENDS Integers, Sequences, FiniteSets, TLC

VARIABLES
    \* ---- planner (SpecPlan) ----
    plan_pc,            \* position inside the planning part of process_single_file
    raw_streams,        \* the "streams" array of ffprobe's JSON output
    languages_arg,      \* args.languages, as its comma-separated pieces
    downmix,            \* args.downmix
    audio_streams_details, \* result of get_stream_info
    audio_ops_for_ffmpeg,  \* the action list being built
    plan_verdict,       \* which of the three planning exits is taken
    \* ---- environment of a run ----
    tools_present,      \* shutil.which finds ffmpeg and ffprobe
    dir_listing,        \* the files os.walk finds under the input folder
    fs,                 \* the filesystem: path -> content
    fs0,                \* the filesystem when the run started (history)
    dirs,               \* the directories that exist
    \* ---- arguments ----
    jobs,               \* args.jobs
    force_reprocess,    \* args.force_reprocess
    dry_run,            \* args.dry_run
    output_directory_base, \* args.output_directory_base ("none" for None)
    \* ---- main() ----
    main_pc,            \* position of the main thread
    files_to_process_paths, \* the discovered files, in discovery order
    num_jobs,           \* min(args.jobs, len(files_to_process_paths))
    submitted,          \* how many files the dict comprehension has submitted
    stats,              \* the six outcome counters
    overall,            \* pbar.n of the "Overall Progress" bar
    collecting,         \* the future whose exception the loop is reporting (0: none)
    counted_as,         \* per file, the counters incremented for it (history)
    \* ---- ThreadPoolExecutor and its workers ----
    work_queue,         \* executor._work_queue
    idle_semaphore,     \* executor._idle_semaphore
    thr,                \* per worker thread: "none", "init", "idle", "busy"
    worker_id,          \* per worker thread: threading.current_thread().worker_id
    worker_id_queue,    \* the queue of slot numbers
    tqdm_lock,          \* the threads holding tqdm_lock (at most one)
    \* ---- process_single_file, per file ----
    job_pc,             \* position of the file's job
    job_thread,         \* the worker thread running it (0: none)
    pbar_position,      \* its pbar_position argument
    verdict,            \* the planner's verdict for it
    final_status,       \* final_status / the value the job returns
    raised,             \* an exception is propagating out of the job
    returncode,         \* process.returncode of its ffmpeg
    tool_runs,          \* how many times ffmpeg was started for it (history)
    file_pbar,          \* its per-file progress bar: "none", "created", "updated", "closed"
    cleanup_failed,     \* os.remove of the temp file failed in the finally block
    log_blocks,         \* how many times its file_specific_logs were written out (history)
    \* ---- the read loop of process_file_with_ffmpeg, looked at alone ----
    progress_pc,        \* position in the read loop
    stdout_lines,       \* the lines process.stdout yields
    line_no,            \* how many of them the loop has read
    duration,           \* the duration argument, in seconds
    file_pbar_n,        \* file_pbar.n, in microseconds
    \* ---- the resolution of the output paths, looked at alone ----
    paths_pc,           \* position: "off", "discover", "resolve"
    resolved            \* per discovered file resolved so far: input, final and temp path

planVars == <<plan_pc, raw_streams, languages_arg, downmix,
              audio_streams_details, audio_ops_for_ffmpeg, plan_verdict>>

envVars == <<tools_present, dir_listing, fs0>>

argVars == <<jobs, force_reprocess, dry_run, output_directory_base>>

mainVars == <<main_pc, files_to_process_paths, num_jobs, submitted, stats, overall,
              collecting, counted_as>>

poolVars == <<work_queue, idle_semaphore, thr, worker_id, worker_id_queue>>

jobVars == <<job_pc, job_thread, pbar_position, verdict, final_status, raised,
             returncode, tool_runs, cleanup_failed, file_pbar, log_blocks>>

progressVars == <<progress_pc, stdout_lines, line_no, duration, file_pbar_n>>

pathVars == <<paths_pc, resolved>>

vars == <<planVars, progressVars, pathVars, envVars, argVars, mainVars, poolVars, jobVars, fs, dirs,
          tqdm_lock>>

(***************************************************************************)
(* Bounds                                                                  *)
(***************************************************************************)
MaxStreams == 2         \* audio streams per probed file
NumFiles == 2           \* media files under the input folder
MaxJobs == 2            \* largest args.jobs

(***************************************************************************)
(* Probing: get_stream_info                                                *)
(***************************************************************************)
\* stream.get("channels") of a stream without the key: None
NullChannels == 0

\* str.lower() on the language tags and arguments the model draws from
Lower(s) ==
    CASE s = "ENG" -> "eng"
      [] s = "Jpn" -> "jpn"
      [] OTHER -> s

\* str.strip() on the pieces of args.languages the model draws from
Strip(s) ==
    CASE s = " ENG " -> "ENG"
      [] s = " " -> ""
      [] OTHER -> s

\* stream.get("tags", {}).get("language", "und").lower(); "absent" stands for
\* a stream without the tag
StreamLanguage(tag) == IF tag = "absent" THEN "und" ELSE Lower(tag)

\* One entry of streams_details for stream_type = "audio"
StreamDetail(stream) ==
    [index |-> stream.index,
     codec_name |-> stream.codec_name,
     channels |-> stream.channels,
     language |-> StreamLanguage(stream.tag_language)]

\* get_stream_info on a successful probe: one detail per stream, in order
get_stream_info(streams) ==
    [i \in 1..Len(streams) |-> StreamDetail(streams[i])]

\* target_languages of process_single_file
TargetLanguages(pieces) ==
    {Lower(Strip(pieces[i])) : i \in {j \in 1..Len(pieces) : Strip(pieces[j]) # ""}}

(***************************************************************************)
(* Planning: the pure part of process_single_file                          *)
(***************************************************************************)
\* Mutant: the classification forgets the codec test (every 6-channel stream of a
\* target language is transcoded)
OpToPerform_NoCodecTest(stream, target_languages) ==
    IF stream.language \in target_languages
    THEN IF stream.channels = 6 THEN "transcode" ELSE "copy"
    ELSE "none"

\* op_to_perform for one stream; "none" is Python's None (the stream is dropped)
OpToPerform(stream, target_languages) ==
    IF stream.language \in target_languages
    THEN LET is_5_1 == stream.channels = 6
             is_not_ac3_eac3 == stream.codec_name \notin {"ac3", "eac3"}
         IN  IF is_5_1 /\ is_not_ac3_eac3 THEN "transcode" ELSE "copy"
    ELSE "none"

\* The loop over audio_streams_details building audio_ops_for_ffmpeg
RECURSIVE PrimaryOps(_, _)
PrimaryOps(streams, target_languages) ==
    IF streams = <<>> THEN <<>>
    ELSE LET stream == Head(streams)
             op == OpToPerform(stream, target_languages)
             rest == PrimaryOps(Tail(streams), target_languages)
         IN  IF op # "none"
             THEN <<[index |-> stream.index, op |-> op, lang |-> stream.language]>> \o rest
             ELSE rest

\* next((s for s in audio_streams_details if s['index'] == op['index']), None):
\* the position of the first stream with that index, 0 for None
OrigStream(streams, index) ==
    LET hits == {i \in 1..Len(streams) : streams[i].index = index}
    IN  IF hits = {} THEN 0 ELSE CHOOSE i \in hits : \A j \in hits : i <= j

\* Mutant: only transcoded streams are downmixed
WantsDownmix_TranscodeOnly(op, streams) ==
    LET orig == OrigStream(streams, op.index)
    IN  orig # 0 /\ streams[orig].channels = 6 /\ op.op = "transcode"

\* Mutant: the downmix block tests the codec again (a stream that is already
\* ac3 / eac3 is not downmixed)
WantsDownmix_CodecRecheck(op, streams) ==
    LET orig == OrigStream(streams, op.index)
    IN  /\ orig # 0
        /\ streams[orig].channels = 6
        /\ streams[orig].codec_name \notin {"ac3", "eac3"}

\* Whether one primary op gets a downmix op
WantsDownmix(op, streams) ==
    LET orig == OrigStream(streams, op.index)
    IN  orig # 0 /\ streams[orig].channels = 6

\* downmix_ops: one per primary op whose original stream has 6 channels
RECURSIVE DownmixOps(_, _)
DownmixOps(ops, streams) ==
    IF ops = <<>> THEN <<>>
    ELSE LET op == Head(ops)
             rest == DownmixOps(Tail(ops), streams)
         IN  IF WantsDownmix(op, streams)
             THEN <<[index |-> op.index, op |-> "downmix", lang |-> op.lang]>> \o rest
             ELSE rest

\* Mutant: the downmix ops are put in front of the primary ops
WithDownmix_DownmixFirst(ops, streams, downmix_enabled) ==
    IF downmix_enabled THEN DownmixOps(ops, streams) \o ops ELSE ops

\* audio_ops_for_ffmpeg after the downmix block
WithDownmix(ops, streams, downmix_enabled) ==
    IF downmix_enabled THEN ops \o DownmixOps(ops, streams) ELSE ops

\* any(op['op'] in ('transcode', 'downmix') for op in audio_ops_for_ffmpeg)
NeedsProcessing(ops) ==
    \E i \in 1..Len(ops) : ops[i].op \in {"transcode", "downmix"}

\* Mutant: a downmix action alone does not count as work
Verdict_TranscodeOnly(ops) ==
    IF ops = <<>> THEN "no_ops"
    ELSE IF ~(\E i \in 1..Len(ops) : ops[i].op = "transcode") THEN "no_transcode_needed"
    ELSE "needs_processing"

\* The two early returns after planning, and the fall-through
Verdict(ops) ==
    IF ops = <<>> THEN "no_ops"
    ELSE IF ~NeedsProcessing(ops) THEN "no_transcode_needed"
    ELSE "needs_processing"

\* The whole plan of one file, as process_single_file computes it
PlanOps(streams, pieces, downmix_enabled) ==
    WithDownmix(PrimaryOps(streams, TargetLanguages(pieces)), streams, downmix_enabled)

(***************************************************************************)
(* Paths and the filesystem                                                *)
(***************************************************************************)
\* SUPPORTED_EXTENSIONS
SUPPORTED_EXTENSIONS == {".mkv", ".mp4"}

\* str.lower() on the file extensions the model draws from
LowerExt(ext) ==
    CASE ext = ".MKV" -> ".mkv"
      [] OTHER -> ext

\* The files that may lie under the input folder: directory below the folder,
\* base name (in pieces) and extension.  File 0 is not a media file; file 2 has
\* the name the output of file 1 gets.
Catalog(f) ==
    CASE f = 0 -> [dir |-> <<>>, name |-> <<"notes">>, ext |-> ".txt"]
      [] f = 1 -> [dir |-> <<>>, name |-> <<"a">>, ext |-> ".mkv"]
      [] f = 2 -> [dir |-> <<>>, name |-> <<"a", "_eac3">>, ext |-> ".mkv"]
      [] f = 3 -> [dir |-> <<"sub">>, name |-> <<"a">>, ext |-> ".MKV"]
      [] f = 5 -> [dir |-> <<"sub">>, name |-> <<"a">>, ext |-> ".mkv"]
      [] f = 6 -> [dir |-> <<"sub", "sub">>, name |-> <<"a", "_eac3">>, ext |-> ".mkv"]
      [] OTHER -> [dir |-> <<>>, name |-> <<"a">>, ext |-> ".mp4"]

\* os.path.join(root, filename) for a file found by os.walk(input_path_abs)
InputPath(f) ==
    [root |-> "in", dir |-> Catalog(f).dir, name |-> Catalog(f).name,
     ext |-> Catalog(f).ext, suffix |-> ""]

\* args.output_directory_base as a directory: "in/sub" lies in the input folder
BaseDir(base) ==
    CASE base = "in/sub" -> [root |-> "in", dir |-> <<"sub">>]
      [] OTHER -> [root |-> base, dir |-> <<>>]

\* Mutant: every output goes into the base directory itself
OutputDir_Flat(f, base) ==
    IF base # "none"
    THEN BaseDir(base)
    ELSE [root |-> "in", dir |-> Catalog(f).dir]

\* output_dir_for_this_file, the input being a folder: beside the input file, or
\* os.path.join(base, relative_dir), which is base itself for relative_dir "."
OutputDir(f, base) ==
    IF base # "none"
    THEN [root |-> BaseDir(base).root, dir |-> BaseDir(base).dir \o Catalog(f).dir]
    ELSE [root |-> "in", dir |-> Catalog(f).dir]

\* Mutant: the output file gets the name of the input file
FinalPath_NoSuffix(f, base) ==
    [root |-> OutputDir(f, base).root, dir |-> OutputDir(f, base).dir,
     name |-> Catalog(f).name, ext |-> Catalog(f).ext, suffix |-> ""]

\* final_output_filepath: <name>_eac3<ext> in the output directory
FinalPath(f, base) ==
    [root |-> OutputDir(f, base).root, dir |-> OutputDir(f, base).dir,
     name |-> Append(Catalog(f).name, "_eac3"), ext |-> Catalog(f).ext, suffix |-> ""]

\* temp_output_filepath = final_output_filepath + ".tmp"
TempPath(f, base) ==
    [FinalPath(f, base) EXCEPT !.suffix = ".tmp"]

\* Mutant: ffmpeg is given the final path as its output file
ToolOutputPath_Final(f, base) == FinalPath(f, base)

\* The last argument of ffmpeg_cmd: the file ffmpeg writes
ToolOutputPath(f, base) == TempPath(f, base)

\* File contents: what a path holds and which job of this run wrote it (0: it
\* was there before the run)
Absent == [kind |-> "absent", by |-> 0]
Source == [kind |-> "source", by |-> 0]
OldOutput == [kind |-> "old", by |-> 0]
Residual == [kind |-> "residual", by |-> 0]
Partial(f) == [kind |-> "partial", by |-> f]
Empty(f) == [kind |-> "empty", by |-> f]
Complete(f) == [kind |-> "complete", by |-> f]

\* os.path.exists
Exists(content) == content.kind # "absent"

\* os.path.getsize(...) > 0
NonEmpty(content) == content.kind \notin {"absent", "empty"}

\* A directory and the directories above it (os.makedirs creates them all)
DirAndParents(d) ==
    {[root |-> d.root, dir |-> SubSeq(d.dir, 1, k)] : k \in 0..Len(d.dir)}

Min(a, b) == IF a <= b THEN a ELSE b

(***************************************************************************)
(* main(): tool check, discovery, pool set-up                              *)
(***************************************************************************)
Files == 1..NumFiles
Threads == 1..(NumFiles + MaxJobs)
MainThread == 0

StatKeys == {"processed", "skipped_no_ops", "skipped_no_transcode",
             "skipped_identical_path", "skipped_existing", "failed"}

\* The counters as main() creates them
ZeroStats == [k \in StatKeys |-> 0]

RECURSIVE SortedSeq(_)
SortedSeq(S) ==
    IF S = {} THEN <<>>
    ELSE LET m == CHOOSE x \in S : \A y \in S : x <= y
         IN  <<m>> \o SortedSeq(S \ {m})

\* The loop of os.walk: the listed files with a supported extension
Discovered(listing) ==
    SortedSeq({f \in listing : LowerExt(Catalog(f).ext) \in SUPPORTED_EXTENSIONS})

\* Mutant: the pool is as large as the file list
NumJobs_FileCount(j, n) == n

\* num_jobs = min(args.jobs, len(files_to_process_paths))
NumJobs(j, n) == Min(j, n)

\* Mutant: the missing tools are reported and main() goes on (no return)
MainToolsMissing_NoReturn ==
    /\ main_pc = "start"
    /\ ~tools_present
    /\ Discovered(dir_listing) # <<>>
    /\ files_to_process_paths' = Discovered(dir_listing)
    /\ stats' = ZeroStats
    /\ tqdm_lock' = {}
    /\ num_jobs' = NumJobs(jobs, Len(Discovered(dir_listing)))
    /\ worker_id_queue' = [i \in 1..num_jobs' |-> i]
    /\ main_pc' = "submit"
    /\ UNCHANGED <<planVars, progressVars, pathVars, envVars, argVars, submitted, overall, collecting,
                   counted_as, work_queue, idle_semaphore, thr, worker_id, jobVars,
                   fs, dirs>>

\* if not shutil.which("ffmpeg") or not shutil.which("ffprobe"): ... return
MainToolsMissing ==
    /\ main_pc = "start"
    /\ ~tools_present
    /\ main_pc' = "no_tools"
    /\ UNCHANGED <<planVars, progressVars, pathVars, envVars, argVars, files_to_process_paths, num_jobs,
                   submitted, stats, overall, collecting, counted_as, poolVars,
                   jobVars, fs, dirs, tqdm_lock>>

\* File discovery finding nothing: "No files to process."
DiscoverNone ==
    /\ main_pc = "start"
    /\ tools_present
    /\ Discovered(dir_listing) = <<>>
    /\ files_to_process_paths' = <<>>
    /\ main_pc' = "no_files"
    /\ UNCHANGED <<planVars, progressVars, pathVars, envVars, argVars, num_jobs, submitted, stats, overall,
                   collecting, counted_as, poolVars, jobVars, fs, dirs, tqdm_lock>>

\* File discovery, the counters, the lock and the queue of slot numbers
Discover ==
    /\ main_pc = "start"
    /\ tools_present
    /\ Discovered(dir_listing) # <<>>
    /\ files_to_process_paths' = Discovered(dir_listing)
    /\ stats' = ZeroStats
    /\ tqdm_lock' = {}
    /\ num_jobs' = NumJobs(jobs, Len(Discovered(dir_listing)))
    /\ worker_id_queue' = [i \in 1..num_jobs' |-> i]
    /\ main_pc' = "submit"
    /\ UNCHANGED <<planVars, progressVars, pathVars, envVars, argVars, submitted, overall, collecting,
                   counted_as, work_queue, idle_semaphore, thr, worker_id, jobVars,
                   fs, dirs>>

(***************************************************************************)
(* ThreadPoolExecutor(max_workers=num_jobs, initializer=worker_init)       *)
(***************************************************************************)
NumThreads == Cardinality({t \in Threads : thr[t] # "none"})

\* executor.submit: queue the work item, then _adjust_thread_count: no new
\* thread when a worker is idle, else a new one while fewer than max_workers
Submit ==
    /\ main_pc = "submit"
    /\ submitted < Len(files_to_process_paths)
    /\ LET f == files_to_process_paths[submitted + 1]
       IN  /\ work_queue' = Append(work_queue, f)
           /\ job_pc' = [job_pc EXCEPT ![f] = "queued"]
    /\ IF idle_semaphore > 0
       THEN /\ idle_semaphore' = idle_semaphore - 1
            /\ thr' = thr
       ELSE /\ idle_semaphore' = idle_semaphore
            /\ IF NumThreads < num_jobs
               THEN thr' = [thr EXCEPT ![NumThreads + 1] = "init"]
               ELSE thr' = thr
    /\ submitted' = submitted + 1
    /\ main_pc' = IF submitted' = Len(files_to_process_paths) THEN "collect" ELSE "submit"
    /\ UNCHANGED <<planVars, progressVars, pathVars, envVars, argVars, files_to_process_paths, num_jobs, stats,
                   overall, collecting, counted_as, worker_id, worker_id_queue,
                   job_thread, pbar_position, verdict, final_status, raised,
                   returncode, tool_runs, cleanup_failed, fs, dirs, tqdm_lock>>
    /\ UNCHANGED <<file_pbar, log_blocks>>

\* Mutant: the initializer reads the first slot number without taking it
WorkerInit_Peek(t) ==
    /\ thr[t] = "init"
    /\ worker_id_queue # <<>>
    /\ worker_id' = [worker_id EXCEPT ![t] = Head(worker_id_queue)]
    /\ worker_id_queue' = worker_id_queue
    /\ thr' = [thr EXCEPT ![t] = "idle"]
    /\ UNCHANGED <<planVars, progressVars, pathVars, envVars, argVars, mainVars, work_queue, idle_semaphore,
                   jobVars, fs, dirs, tqdm_lock>>

\* worker_init: threading.current_thread().worker_id = worker_id_queue.get()
WorkerInit(t) ==
    /\ thr[t] = "init"
    /\ worker_id_queue # <<>>
    /\ worker_id' = [worker_id EXCEPT ![t] = Head(worker_id_queue)]
    /\ worker_id_queue' = Tail(worker_id_queue)
    /\ thr' = [thr EXCEPT ![t] = "idle"]
    /\ UNCHANGED <<planVars, progressVars, pathVars, envVars, argVars, mainVars, work_queue, idle_semaphore,
                   jobVars, fs, dirs, tqdm_lock>>

\* Mutant: a worker takes the next work item while its job is still running
WorkerFree_Always(t) == thr[t] \in {"idle", "busy"}

\* A worker is back in work_queue.get(): its initializer or its last job returned
WorkerFree(t) == thr[t] = "idle"

\* The worker takes a work item and calls submit_task(filepath), which reads the
\* thread's worker_id and enters process_single_file
TakeWork(t) ==
    /\ WorkerFree(t)
    /\ work_queue # <<>>
    /\ LET f == Head(work_queue)
       IN  /\ job_pc' = [job_pc EXCEPT ![f] = "probe"]
           /\ job_thread' = [job_thread EXCEPT ![f] = t]
           /\ pbar_position' = [pbar_position EXCEPT ![f] = worker_id[t]]
    /\ work_queue' = Tail(work_queue)
    /\ thr' = [thr EXCEPT ![t] = "busy"]
    /\ UNCHANGED <<planVars, progressVars, pathVars, envVars, argVars, mainVars, idle_semaphore, worker_id,
                   worker_id_queue, verdict, final_status, raised, returncode,
                   tool_runs, cleanup_failed, fs, dirs, tqdm_lock>>
    /\ UNCHANGED <<file_pbar, log_blocks>>

(***************************************************************************)
(* process_single_file: one action per stretch between two blocking calls  *)
(***************************************************************************)
\* What ffprobe may answer for the audio streams of a file (the empty list is
\* also what get_stream_info returns when the probe fails)
ProbeAnswers ==
    {<<>>,
     <<[index |-> 1, codec_name |-> "aac", channels |-> 6, tag_language |-> "eng"]>>,
     <<[index |-> 1, codec_name |-> "eac3", channels |-> 6, tag_language |-> "ENG"]>>,
     <<[index |-> 1, codec_name |-> "ac3", channels |-> 2, tag_language |-> "eng"]>>,
     <<[index |-> 1, codec_name |-> "aac", channels |-> 6, tag_language |-> "fra"]>>}

\* process.returncode before the process has ended (None)
ReturnCodeNone == -1

\* The verdict of the plan built from one answer of ffprobe
PlannedVerdict(answer) ==
    Verdict(PlanOps(get_stream_info(answer), languages_arg, downmix))

\* Mutant: an existing output is not looked for
PreflightOutcome_NoExistingCheck(f, v) ==
    IF v = "no_ops" THEN "skipped_no_ops"
    ELSE IF v = "no_transcode_needed" THEN "skipped_no_transcode"
    ELSE IF InputPath(f) = FinalPath(f, output_directory_base)
         THEN "skipped_identical_path"
    ELSE IF dry_run THEN "dry_run"
    ELSE "proceed"

\* Mutant: args.dry_run is not looked at
PreflightOutcome_NoDryRun(f, v) ==
    IF v = "no_ops" THEN "skipped_no_ops"
    ELSE IF v = "no_transcode_needed" THEN "skipped_no_transcode"
    ELSE IF Exists(fs[FinalPath(f, output_directory_base)]) /\ ~force_reprocess
         THEN "skipped_existing"
    ELSE IF InputPath(f) = FinalPath(f, output_directory_base)
         THEN "skipped_identical_path"
    ELSE "proceed"

\* Mutant: the existing output is looked for before the plan's verdict
PreflightOutcome_ExistingFirst(f, v) ==
    IF Exists(fs[FinalPath(f, output_directory_base)]) /\ ~force_reprocess
    THEN "skipped_existing"
    ELSE IF v = "no_ops" THEN "skipped_no_ops"
    ELSE IF v = "no_transcode_needed" THEN "skipped_no_transcode"
    ELSE IF InputPath(f) = FinalPath(f, output_directory_base)
         THEN "skipped_identical_path"
    ELSE IF dry_run THEN "dry_run"
    ELSE "proceed"

\* Mutant: args.dry_run is tested before the output paths are looked at
PreflightOutcome_DryRunFirst(f, v) ==
    IF v = "no_ops" THEN "skipped_no_ops"
    ELSE IF v = "no_transcode_needed" THEN "skipped_no_transcode"
    ELSE IF dry_run THEN "dry_run"
    ELSE IF Exists(fs[FinalPath(f, output_directory_base)]) /\ ~force_reprocess
         THEN "skipped_existing"
    ELSE IF InputPath(f) = FinalPath(f, output_directory_base)
         THEN "skipped_identical_path"
    ELSE "proceed"

\* The early returns of process_single_file, in the order the code tests them,
\* for a file whose plan has verdict v
PreflightOutcome(f, v) ==
    IF v = "no_ops" THEN "skipped_no_ops"
    ELSE IF v = "no_transcode_needed" THEN "skipped_no_transcode"
    ELSE IF Exists(fs[FinalPath(f, output_directory_base)]) /\ ~force_reprocess
         THEN "skipped_existing"
    ELSE IF InputPath(f) = FinalPath(f, output_directory_base)
         THEN "skipped_identical_path"
    ELSE IF dry_run THEN "dry_run"
    ELSE "proceed"

\* get_stream_info returns, the plan is built and one of the early returns is
\* taken: the status is set and the job goes to write its log lines
ProbeAndSkip(f) ==
    /\ job_pc[f] = "probe"
    /\ \E answer \in ProbeAnswers :
           LET outcome == PreflightOutcome(f, PlannedVerdict(answer))
           IN  /\ outcome # "proceed"
               /\ verdict' = [verdict EXCEPT ![f] = PlannedVerdict(answer)]
               /\ final_status' = [final_status EXCEPT
                      ![f] = IF outcome = "dry_run" THEN "processed" ELSE outcome]
    /\ job_pc' = [job_pc EXCEPT ![f] = "skip_log"]
    /\ UNCHANGED <<planVars, progressVars, pathVars, envVars, argVars, mainVars, poolVars, job_thread,
                   pbar_position, raised, returncode, tool_runs, cleanup_failed,
                   fs, dirs, tqdm_lock>>
    /\ UNCHANGED <<file_pbar, log_blocks>>

\* No early return: the output directory is there, or os.makedirs creates it;
\* then get_video_duration is called
ProbeAndProceed(f) ==
    /\ job_pc[f] = "probe"
    /\ \E answer \in ProbeAnswers :
           /\ PreflightOutcome(f, PlannedVerdict(answer)) = "proceed"
           /\ verdict' = [verdict EXCEPT ![f] = PlannedVerdict(answer)]
    /\ dirs' = dirs \cup DirAndParents(OutputDir(f, output_directory_base))
    /\ job_pc' = [job_pc EXCEPT ![f] = "duration"]
    /\ UNCHANGED <<planVars, progressVars, pathVars, envVars, argVars, mainVars, poolVars, job_thread,
                   pbar_position, final_status, raised, returncode, tool_runs,
                   cleanup_failed, fs, tqdm_lock>>
    /\ UNCHANGED <<file_pbar, log_blocks>>

\* Mutant: the OSError of os.makedirs is swallowed and the job goes on
MakedirsFails_Ignored(f) ==
    /\ job_pc[f] = "probe"
    /\ \E answer \in ProbeAnswers :
           /\ PreflightOutcome(f, PlannedVerdict(answer)) = "proceed"
           /\ verdict' = [verdict EXCEPT ![f] = PlannedVerdict(answer)]
    /\ OutputDir(f, output_directory_base) \notin dirs
    /\ job_pc' = [job_pc EXCEPT ![f] = "duration"]
    /\ UNCHANGED <<planVars, progressVars, pathVars, envVars, argVars, mainVars, poolVars, job_thread,
                   pbar_position, final_status, raised, returncode, tool_runs,
                   cleanup_failed, fs, dirs, tqdm_lock>>
    /\ UNCHANGED <<file_pbar, log_blocks>>

\* No early return, and os.makedirs raises OSError: return "failed"
MakedirsFails(f) ==
    /\ job_pc[f] = "probe"
    /\ \E answer \in ProbeAnswers :
           /\ PreflightOutcome(f, PlannedVerdict(answer)) = "proceed"
           /\ verdict' = [verdict EXCEPT ![f] = PlannedVerdict(answer)]
    /\ OutputDir(f, output_directory_base) \notin dirs
    /\ final_status' = [final_status EXCEPT ![f] = "failed"]
    /\ job_pc' = [job_pc EXCEPT ![f] = "skip_log"]
    /\ UNCHANGED <<planVars, progressVars, pathVars, envVars, argVars, mainVars, poolVars, job_thread,
                   pbar_position, raised, returncode, tool_runs, cleanup_failed,
                   fs, dirs, tqdm_lock>>
    /\ UNCHANGED <<file_pbar, log_blocks>>

\* Mutant: the job takes tqdm_lock before it starts ffmpeg, to keep it while the
\* transcoder runs
StartFfmpeg_HoldingLock(f) ==
    /\ job_pc[f] = "duration"
    /\ tools_present
    /\ tqdm_lock = {}
    /\ tqdm_lock' = {job_thread[f]}
    /\ job_pc' = [job_pc EXCEPT ![f] = "ffmpeg"]
    /\ tool_runs' = [tool_runs EXCEPT ![f] = @ + 1]
    /\ \E duration_known \in BOOLEAN :
           file_pbar' = [file_pbar EXCEPT
               ![f] = IF duration_known THEN "created" ELSE "none"]
    /\ UNCHANGED <<planVars, progressVars, pathVars, envVars, argVars, mainVars, poolVars, job_thread,
                   pbar_position, verdict, final_status, raised, returncode,
                   cleanup_failed, log_blocks, fs, dirs>>

\* get_video_duration returns; process_file_with_ffmpeg builds the command and
\* subprocess.Popen starts ffmpeg (or ffmpeg is not found: return False); with a
\* duration above 0 the per-file progress bar is created: file_pbar = tqdm(...)
StartFfmpeg(f) ==
    /\ job_pc[f] = "duration"
    /\ IF tools_present
       THEN /\ job_pc' = [job_pc EXCEPT ![f] = "ffmpeg"]
            /\ tool_runs' = [tool_runs EXCEPT ![f] = @ + 1]
            /\ \E duration_known \in BOOLEAN :
                   file_pbar' = [file_pbar EXCEPT
                       ![f] = IF duration_known THEN "created" ELSE "none"]
       ELSE /\ job_pc' = [job_pc EXCEPT ![f] = "cleanup"]
            /\ tool_runs' = tool_runs
            /\ file_pbar' = file_pbar
    /\ UNCHANGED <<planVars, progressVars, pathVars, envVars, argVars, mainVars, poolVars, job_thread,
                   pbar_position, verdict, final_status, raised, returncode,
                   cleanup_failed, log_blocks, fs, dirs, tqdm_lock>>

\* get_video_duration lets an exception go that it does not catch (subprocess.run
\* raises OSError: ffprobe cannot be started).  The call is before the try
\* block: the exception leaves process_single_file at once, the future is done,
\* and the worker is back in work_queue.get()
DurationProbeRaises(f) ==
    /\ job_pc[f] = "duration"
    /\ tools_present
    /\ raised' = [raised EXCEPT ![f] = TRUE]
    /\ job_pc' = [job_pc EXCEPT ![f] = "done"]
    /\ thr' = [thr EXCEPT ![job_thread[f]] = "idle"]
    /\ idle_semaphore' = idle_semaphore + 1
    /\ job_thread' = [job_thread EXCEPT ![f] = 0]
    /\ pbar_position' = [pbar_position EXCEPT ![f] = 0]
    /\ verdict' = [verdict EXCEPT ![f] = "none"]
    /\ UNCHANGED <<planVars, progressVars, pathVars, envVars, argVars, mainVars, work_queue, worker_id,
                   worker_id_queue, final_status, returncode, tool_runs, cleanup_failed,
                   file_pbar, log_blocks, fs, dirs, tqdm_lock>>

\* subprocess.Popen raises (OSError): no process, and the exception leaves
\* process_file_with_ffmpeg for the finally block of process_single_file
PopenRaises(f) ==
    /\ job_pc[f] = "duration"
    /\ tools_present
    /\ raised' = [raised EXCEPT ![f] = TRUE]
    /\ job_pc' = [job_pc EXCEPT ![f] = "cleanup"]
    /\ UNCHANGED <<planVars, progressVars, pathVars, envVars, argVars, mainVars, poolVars, job_thread,
                   pbar_position, verdict, final_status, returncode, tool_runs,
                   cleanup_failed, fs, dirs, tqdm_lock>>
    /\ UNCHANGED <<file_pbar, log_blocks>>

\* ffmpeg, running, writes its output file (-y: over whatever is there)
ToolWrite(f) ==
    /\ job_pc[f] = "ffmpeg"
    /\ fs[ToolOutputPath(f, output_directory_base)] # Partial(f)
    /\ fs' = [fs EXCEPT ![ToolOutputPath(f, output_directory_base)] = Partial(f)]
    /\ UNCHANGED <<planVars, progressVars, pathVars, envVars, argVars, mainVars, poolVars, jobVars, dirs,
                   tqdm_lock>>

\* The worker reads an out_time_us line that is ahead of the bar:
\* file_pbar.update(update_amount)
ToolProgress(f) ==
    /\ job_pc[f] = "ffmpeg"
    /\ file_pbar[f] = "created"
    /\ file_pbar' = [file_pbar EXCEPT ![f] = "updated"]
    /\ UNCHANGED <<planVars, progressVars, pathVars, envVars, argVars, mainVars, poolVars, job_pc,
                   job_thread, pbar_position, verdict, final_status, raised, returncode,
                   tool_runs, cleanup_failed, log_blocks, fs, dirs, tqdm_lock>>

\* ffmpeg ends: with code 0 its output file is complete, empty or not there;
\* with another code the file is as the run left it.  process.stdout reaches
\* its end, process.wait() returns and the per-file bar, if any, is closed.
ToolExit(f) ==
    /\ job_pc[f] = "ffmpeg"
    /\ \E rc \in {0, 1} :
       \E content \in IF rc = 0
                      THEN {Complete(f), Empty(f), Absent}
                      ELSE {fs[ToolOutputPath(f, output_directory_base)]} :
           /\ returncode' = [returncode EXCEPT ![f] = rc]
           /\ fs' = [fs EXCEPT ![ToolOutputPath(f, output_directory_base)] = content]
    /\ job_pc' = [job_pc EXCEPT ![f] = "exited"]
    /\ file_pbar' = [file_pbar EXCEPT ![f] = IF @ = "none" THEN "none" ELSE "closed"]
    /\ UNCHANGED <<planVars, progressVars, pathVars, envVars, argVars, mainVars, poolVars, job_thread,
                   pbar_position, verdict, final_status, raised, tool_runs,
                   cleanup_failed, log_blocks, dirs, tqdm_lock>>

\* Mutant: the size of the temp file is not checked
RenameAllowed_NoSizeCheck(f) ==
    /\ returncode[f] = 0
    /\ Exists(fs[TempPath(f, output_directory_base)])

\* Mutant: the exit code is not checked
RenameAllowed_NoExitCheck(f) ==
    /\ Exists(fs[TempPath(f, output_directory_base)])
    /\ NonEmpty(fs[TempPath(f, output_directory_base)])

\* process.returncode == 0 and os.path.exists(temp) and os.path.getsize(temp) > 0
RenameAllowed(f) ==
    /\ returncode[f] = 0
    /\ Exists(fs[TempPath(f, output_directory_base)])
    /\ NonEmpty(fs[TempPath(f, output_directory_base)])

\* os.rename(temp_output_filepath, final_output_filepath); return True
PromoteRename(f) ==
    /\ job_pc[f] = "exited"
    /\ RenameAllowed(f)
    /\ fs' = [fs EXCEPT
                 ![FinalPath(f, output_directory_base)] =
                     fs[TempPath(f, output_directory_base)],
                 ![TempPath(f, output_directory_base)] = Absent]
    /\ final_status' = [final_status EXCEPT ![f] = "processed"]
    /\ job_pc' = [job_pc EXCEPT ![f] = "cleanup"]
    /\ UNCHANGED <<planVars, progressVars, pathVars, envVars, argVars, mainVars, poolVars, job_thread,
                   pbar_position, verdict, raised, returncode, tool_runs,
                   cleanup_failed, dirs, tqdm_lock>>
    /\ UNCHANGED <<file_pbar, log_blocks>>

\* Exit code 0 but the temp file is missing or empty: remove it if it exists;
\* return False
RejectEmpty(f) ==
    /\ job_pc[f] = "exited"
    /\ ~RenameAllowed(f)
    /\ returncode[f] = 0
    /\ fs' = [fs EXCEPT ![TempPath(f, output_directory_base)] = Absent]
    /\ final_status' = [final_status EXCEPT ![f] = "failed"]
    /\ job_pc' = [job_pc EXCEPT ![f] = "cleanup"]
    /\ UNCHANGED <<planVars, progressVars, pathVars, envVars, argVars, mainVars, poolVars, job_thread,
                   pbar_position, verdict, raised, returncode, tool_runs,
                   cleanup_failed, dirs, tqdm_lock>>
    /\ UNCHANGED <<file_pbar, log_blocks>>

\* The same, but os.remove raises OSError, which leaves process_file_with_ffmpeg
RejectEmptyRaises(f) ==
    /\ job_pc[f] = "exited"
    /\ ~RenameAllowed(f)
    /\ returncode[f] = 0
    /\ Exists(fs[TempPath(f, output_directory_base)])
    /\ raised' = [raised EXCEPT ![f] = TRUE]
    /\ job_pc' = [job_pc EXCEPT ![f] = "cleanup"]
    /\ UNCHANGED <<planVars, progressVars, pathVars, envVars, argVars, mainVars, poolVars, job_thread,
                   pbar_position, verdict, final_status, returncode, tool_runs,
                   cleanup_failed, fs, dirs, tqdm_lock>>
    /\ UNCHANGED <<file_pbar, log_blocks>>

\* Mutant: after another exit code the job starts ffmpeg once more
ReportToolError_Retry(f) ==
    /\ job_pc[f] = "exited"
    /\ ~RenameAllowed(f)
    /\ returncode[f] # 0
    /\ tool_runs[f] < 2
    /\ returncode' = [returncode EXCEPT ![f] = ReturnCodeNone]
    /\ job_pc' = [job_pc EXCEPT ![f] = "duration"]
    /\ UNCHANGED <<planVars, progressVars, pathVars, envVars, argVars, mainVars, poolVars, job_thread,
                   pbar_position, verdict, final_status, raised, tool_runs,
                   cleanup_failed, fs, dirs, tqdm_lock>>
    /\ UNCHANGED <<file_pbar, log_blocks>>

\* Another exit code: the error is logged; return False (the temp file stays)
ReportToolError(f) ==
    /\ job_pc[f] = "exited"
    /\ ~RenameAllowed(f)
    /\ returncode[f] # 0
    /\ final_status' = [final_status EXCEPT ![f] = "failed"]
    /\ job_pc' = [job_pc EXCEPT ![f] = "cleanup"]
    /\ UNCHANGED <<planVars, progressVars, pathVars, envVars, argVars, mainVars, poolVars, job_thread,
                   pbar_position, verdict, raised, returncode, tool_runs,
                   cleanup_failed, fs, dirs, tqdm_lock>>
    /\ UNCHANGED <<file_pbar, log_blocks>>

\* Mutant: the finally block leaves the temp file where it is
CleanupRemove_Skip(f) ==
    /\ job_pc[f] = "cleanup"
    /\ job_pc' = [job_pc EXCEPT ![f] = "log"]
    /\ UNCHANGED <<planVars, progressVars, pathVars, envVars, argVars, mainVars, poolVars, job_thread,
                   pbar_position, verdict, final_status, raised, returncode,
                   tool_runs, cleanup_failed, fs, dirs, tqdm_lock>>
    /\ UNCHANGED <<file_pbar, log_blocks>>

\* finally: if os.path.exists(temp_filepath): os.remove(temp_filepath)
CleanupRemove(f) ==
    /\ job_pc[f] = "cleanup"
    /\ fs' = [fs EXCEPT ![TempPath(f, output_directory_base)] = Absent]
    /\ job_pc' = [job_pc EXCEPT ![f] = "log"]
    /\ UNCHANGED <<planVars, progressVars, pathVars, envVars, argVars, mainVars, poolVars, job_thread,
                   pbar_position, verdict, final_status, raised, returncode,
                   tool_runs, cleanup_failed, dirs, tqdm_lock>>
    /\ UNCHANGED <<file_pbar, log_blocks>>

\* finally: os.remove raises OSError, which is caught and logged
CleanupRemoveFails(f) ==
    /\ job_pc[f] = "cleanup"
    /\ Exists(fs[TempPath(f, output_directory_base)])
    /\ cleanup_failed' = [cleanup_failed EXCEPT ![f] = TRUE]
    /\ job_pc' = [job_pc EXCEPT ![f] = "log"]
    /\ UNCHANGED <<planVars, progressVars, pathVars, envVars, argVars, mainVars, poolVars, job_thread,
                   pbar_position, verdict, final_status, raised, returncode,
                   tool_runs, fs, dirs, tqdm_lock>>
    /\ UNCHANGED <<file_pbar, log_blocks>>

\* with tqdm_lock (in one of the early returns): the job takes the lock
SkipAcquireLock(f) ==
    /\ job_pc[f] = "skip_log"
    /\ tqdm_lock = {}
    /\ tqdm_lock' = {job_thread[f]}
    /\ job_pc' = [job_pc EXCEPT ![f] = "skip_logging"]
    /\ UNCHANGED <<planVars, progressVars, pathVars, envVars, argVars, mainVars, poolVars, job_thread,
                   pbar_position, verdict, final_status, raised, returncode,
                   tool_runs, cleanup_failed, fs, dirs>>
    /\ UNCHANGED <<file_pbar, log_blocks>>

\* with tqdm_lock (in the finally block): the job takes the lock
AcquireLock(f) ==
    /\ job_pc[f] = "log"
    /\ tqdm_lock = {}
    /\ tqdm_lock' = {job_thread[f]}
    /\ job_pc' = [job_pc EXCEPT ![f] = "logging"]
    /\ UNCHANGED <<planVars, progressVars, pathVars, envVars, argVars, mainVars, poolVars, job_thread,
                   pbar_position, verdict, final_status, raised, returncode,
                   tool_runs, cleanup_failed, fs, dirs>>
    /\ UNCHANGED <<file_pbar, log_blocks>>

\* Mutant: the job returns without releasing tqdm_lock
WriteLogs_KeepsLock(f) ==
    /\ job_pc[f] \in {"skip_logging", "logging"}
    /\ tqdm_lock' = tqdm_lock
    /\ job_pc' = [job_pc EXCEPT ![f] = "done"]
    /\ thr' = [thr EXCEPT ![job_thread[f]] = "idle"]
    /\ idle_semaphore' = idle_semaphore + 1
    /\ job_thread' = [job_thread EXCEPT ![f] = 0]
    /\ pbar_position' = [pbar_position EXCEPT ![f] = 0]
    /\ verdict' = [verdict EXCEPT ![f] = "none"]
    /\ returncode' = [returncode EXCEPT ![f] = ReturnCodeNone]
    /\ file_pbar' = [file_pbar EXCEPT ![f] = "none"]
    /\ log_blocks' = [log_blocks EXCEPT ![f] = @ + 1]
    /\ UNCHANGED <<planVars, progressVars, pathVars, envVars, argVars, mainVars, work_queue,
                   worker_id, worker_id_queue, final_status, raised, tool_runs,
                   cleanup_failed, fs, dirs>>

\* The log lines are written, the lock is released and process_single_file
\* returns its status or lets its exception go: the future is done, the locals
\* of the call are gone, and the worker is back in work_queue.get()
WriteLogs(f) ==
    /\ job_pc[f] \in {"skip_logging", "logging"}
    /\ tqdm_lock' = tqdm_lock \ {job_thread[f]}
    /\ job_pc' = [job_pc EXCEPT ![f] = "done"]
    /\ thr' = [thr EXCEPT ![job_thread[f]] = "idle"]
    /\ idle_semaphore' = idle_semaphore + 1
    /\ job_thread' = [job_thread EXCEPT ![f] = 0]
    /\ pbar_position' = [pbar_position EXCEPT ![f] = 0]
    /\ verdict' = [verdict EXCEPT ![f] = "none"]
    /\ returncode' = [returncode EXCEPT ![f] = ReturnCodeNone]
    /\ file_pbar' = [file_pbar EXCEPT ![f] = "none"]
    /\ log_blocks' = [log_blocks EXCEPT ![f] = @ + 1]
    /\ UNCHANGED <<planVars, progressVars, pathVars, envVars, argVars, mainVars, work_queue, worker_id,
                   worker_id_queue, final_status, raised, tool_runs, cleanup_failed,
                   fs, dirs>>

(***************************************************************************)
(* main(): the as_completed loop                                           *)
(***************************************************************************)
\* Mutant: an exception of a job ends the loop (it is not caught)
ReportException_Abort ==
    /\ main_pc = "collect"
    /\ collecting # 0
    /\ tqdm_lock' = tqdm_lock \ {MainThread}
    /\ collecting' = 0
    /\ main_pc' = "crashed"
    /\ UNCHANGED <<planVars, progressVars, pathVars, envVars, argVars, files_to_process_paths, num_jobs,
                   submitted, stats, overall, counted_as, poolVars, jobVars, fs, dirs>>

\* Mutant: the same file is counted under two counters
CountResult_Twice(f) ==
    /\ stats' = [stats EXCEPT ![final_status[f]] = @ + 1, !["failed"] = @ + 1]
    /\ counted_as' = [counted_as EXCEPT ![f] = counted_as[f] \o <<final_status[f], "failed">>]
    /\ overall' = overall + 1

\* Mutant: the overall bar is not updated for a returned status
CountResult_NoBarUpdate(f) ==
    /\ stats' = [stats EXCEPT ![final_status[f]] = @ + 1]
    /\ counted_as' = [counted_as EXCEPT ![f] = Append(counted_as[f], final_status[f])]
    /\ overall' = overall

\* status = future.result(); stats[status] += 1; finally: pbar.update(1)
\* (process_single_file returns keys of stats only)
CountResult(f) ==
    /\ stats' = [stats EXCEPT ![final_status[f]] = @ + 1]
    /\ counted_as' = [counted_as EXCEPT ![f] = Append(counted_as[f], final_status[f])]
    /\ overall' = overall + 1

\* as_completed yields a future that returned a status
CollectResult(f) ==
    /\ main_pc = "collect"
    /\ collecting = 0
    /\ job_pc[f] = "done"
    /\ counted_as[f] = <<>>
    /\ ~raised[f]
    /\ CountResult(f)
    /\ UNCHANGED <<planVars, progressVars, pathVars, envVars, argVars, main_pc, files_to_process_paths,
                   num_jobs, submitted, collecting, poolVars, jobVars, fs, dirs,
                   tqdm_lock>>

\* as_completed yields a future that raised: except Exception, with tqdm_lock
CollectException(f) ==
    /\ main_pc = "collect"
    /\ collecting = 0
    /\ job_pc[f] = "done"
    /\ counted_as[f] = <<>>
    /\ raised[f]
    /\ tqdm_lock = {}
    /\ tqdm_lock' = {MainThread}
    /\ collecting' = f
    /\ UNCHANGED <<planVars, progressVars, pathVars, envVars, argVars, main_pc, files_to_process_paths,
                   num_jobs, submitted, stats, overall, counted_as, poolVars, jobVars,
                   fs, dirs>>

\* The critical error is written, the lock released; stats["failed"] += 1;
\* finally: pbar.update(1)
ReportException ==
    /\ main_pc = "collect"
    /\ collecting # 0
    /\ tqdm_lock' = tqdm_lock \ {MainThread}
    /\ stats' = [stats EXCEPT !["failed"] = @ + 1]
    /\ counted_as' = [counted_as EXCEPT ![collecting] = Append(@, "failed")]
    /\ overall' = overall + 1
    /\ collecting' = 0
    /\ UNCHANGED <<planVars, progressVars, pathVars, envVars, argVars, main_pc, files_to_process_paths,
                   num_jobs, submitted, poolVars, jobVars, fs, dirs>>

\* Every future was yielded: the with blocks end and the summary is printed
Summary ==
    /\ main_pc = "collect"
    /\ collecting = 0
    /\ \A i \in 1..Len(files_to_process_paths) :
           counted_as[files_to_process_paths[i]] # <<>>
    /\ main_pc' = "summary"
    /\ UNCHANGED <<planVars, progressVars, pathVars, envVars, argVars, files_to_process_paths, num_jobs,
                   submitted, stats, overall, collecting, counted_as, poolVars,
                   jobVars, fs, dirs, tqdm_lock>>

\* KeyboardInterrupt is raised in the main thread while it submits or collects:
\* a lock it holds is released, the finally of the loop body updates the bar, and
\* the exception leaves the with block of the executor, whose __exit__ is
\* shutdown(wait=True): the queue is not emptied and the workers are joined
Interrupt ==
    /\ main_pc \in {"submit", "collect"}
    /\ tqdm_lock' = tqdm_lock \ {MainThread}
    /\ overall' = IF collecting # 0 THEN overall + 1 ELSE overall
    /\ collecting' = 0
    /\ main_pc' = "interrupted"
    /\ UNCHANGED <<planVars, progressVars, pathVars, envVars, argVars, files_to_process_paths, num_jobs,
                   submitted, stats, counted_as, poolVars, jobVars, fs, dirs>>

\* The workers have run out of work items and are joined: except
\* KeyboardInterrupt prints its message and main() returns
InterruptReturn ==
    /\ main_pc = "interrupted"
    /\ work_queue = <<>>
    /\ \A t \in Threads : thr[t] \in {"none", "idle"}
    /\ main_pc' = "interrupt_return"
    /\ UNCHANGED <<planVars, progressVars, pathVars, envVars, argVars, files_to_process_paths, num_jobs,
                   submitted, stats, overall, collecting, counted_as, poolVars,
                   jobVars, fs, dirs, tqdm_lock>>

(***************************************************************************)
(* Initial states                                                          *)
(***************************************************************************)
\* The read loop while it is not looked at
ProgressOff ==
    /\ progress_pc = "off"
    /\ stdout_lines = <<>>
    /\ line_no = 0
    /\ duration = 0
    /\ file_pbar_n = 0

\* The resolution of the output paths while it is not looked at
PathsOff ==
    /\ paths_pc = "off"
    /\ resolved = <<>>

runVars == <<envVars, argVars, mainVars, poolVars, jobVars, fs, dirs, tqdm_lock>>

\* main() and the pool before anything has run
MainAtStart ==
    /\ main_pc = "start"
    /\ files_to_process_paths = <<>>
    /\ num_jobs = 0
    /\ submitted = 0
    /\ stats = ZeroStats
    /\ overall = 0
    /\ collecting = 0
    /\ counted_as = [f \in Files |-> <<>>]
    /\ work_queue = <<>>
    /\ idle_semaphore = 0
    /\ thr = [t \in Threads |-> "none"]
    /\ worker_id = [t \in Threads |-> 0]
    /\ worker_id_queue = <<>>
    /\ tqdm_lock = {}
    /\ job_pc = [f \in Files |-> "unsubmitted"]
    /\ job_thread = [f \in Files |-> 0]
    /\ pbar_position = [f \in Files |-> 0]
    /\ verdict = [f \in Files |-> "none"]
    /\ final_status = [f \in Files |-> "failed"]
    /\ raised = [f \in Files |-> FALSE]
    /\ returncode = [f \in Files |-> ReturnCodeNone]
    /\ tool_runs = [f \in Files |-> 0]
    /\ cleanup_failed = [f \in Files |-> FALSE]
    /\ file_pbar = [f \in Files |-> "none"]
    /\ log_blocks = [f \in Files |-> 0]

\* The run part of the state while only the planner is looked at
RunOff ==
    /\ MainAtStart
    /\ tools_present = TRUE
    /\ dir_listing = {}
    /\ fs = <<>>
    /\ fs0 = <<>>
    /\ dirs = {}
    /\ jobs = 1
    /\ force_reprocess = FALSE
    /\ dry_run = FALSE
    /\ output_directory_base = "none"

\* The directories of the listed files: they exist
InputDirs(listing) ==
    UNION {DirAndParents([root |-> "in", dir |-> Catalog(f).dir]) : f \in listing}

\* The output directories of the listed files, when they are not the input ones
OutputDirs(listing, base) ==
    UNION {DirAndParents(OutputDir(f, base)) : f \in listing} \ InputDirs(listing)

\* The filesystem at the start of a run: the listed files are there; a final
\* path may hold the output of an earlier run and a temp path what an earlier
\* run left behind, where the directory exists
StartFs(listing, base, existing_dirs, olds, residuals) ==
    LET inputs == {InputPath(f) : f \in listing}
        finals == {FinalPath(f, base) : f \in listing}
        temps  == {TempPath(f, base) : f \in listing}
    IN  [p \in inputs \cup finals \cup temps |->
            IF p \in inputs THEN Source
            ELSE IF \E f \in olds : p = FinalPath(f, base) THEN OldOutput
            ELSE IF \E f \in residuals : p = TempPath(f, base) THEN Residual
            ELSE Absent]

\* What every run starts with, whatever lies under the input folder
InitCommon ==
    /\ plan_pc = "off"
    /\ raw_streams = <<>>
    /\ audio_streams_details = <<>>
    /\ audio_ops_for_ffmpeg = <<>>
    /\ plan_verdict = "none"
    /\ languages_arg = <<"eng", "jpn">>
    /\ ProgressOff
    /\ PathsOff
    /\ MainAtStart
    /\ jobs \in 1..MaxJobs
    /\ force_reprocess \in BOOLEAN
    /\ dry_run \in BOOLEAN
    /\ output_directory_base \in {"none", "out"}

\* The directories and files at the start: the input tree, any part of the
\* output tree, and for the files of leftovers an old output and / or a temp file
InitFs(leftovers) ==
    /\ \E made \in SUBSET OutputDirs(dir_listing, output_directory_base) :
           /\ \A d \in made : DirAndParents(d) \ InputDirs(dir_listing) \subseteq made
           /\ dirs = InputDirs(dir_listing) \cup made
    /\ \E olds \in SUBSET {f \in leftovers : OutputDir(f, output_directory_base) \in dirs} :
       \E residuals \in SUBSET {f \in leftovers : OutputDir(f, output_directory_base) \in dirs} :
           fs = StartFs(dir_listing, output_directory_base, dirs, olds, residuals)
    /\ fs0 = fs

\* A folder with at most one media file: every combination of arguments, tools
\* and leftovers of earlier runs
InitOneFile ==
    /\ InitCommon
    /\ downmix \in BOOLEAN
    /\ tools_present \in BOOLEAN
    /\ dir_listing \in {{0}, {0, 1}}
    /\ InitFs(dir_listing)

\* A folder with several media files, the tools installed, and nothing left by an
\* earlier run (the files of the folder itself are there: the output of file 1,
\* written beside it, would take the place of file 2)
InitManyFiles ==
    /\ InitCommon
    /\ downmix = FALSE
    /\ tools_present = TRUE
    /\ dir_listing \in {{0} \cup (1..k) : k \in 2..NumFiles}
    /\ InitFs({})

Init ==
    \/ InitOneFile
    \/ InitManyFiles

(***************************************************************************)
(* SpecPlan: the planner over every bounded ffprobe answer                 *)
(***************************************************************************)
Codecs == {"aac", "ac3", "eac3"}
Channels == {NullChannels, 2, 6}
LanguageTags == {"eng", "ENG", "fra", "absent"}
LanguageArgs == {<<"eng", "jpn">>, <<" ENG ", " ">>, <<"fra", "Jpn">>, <<"">>}

\* ffprobe numbers the streams of a file uniquely and in order, all stream types
\* together: the audio streams come after stream 0 and need not be contiguous
StreamIndex(i) == 2 * i - 1

RawStreamLists(n) ==
    {[i \in 1..n |-> [index |-> StreamIndex(i),
                      codec_name |-> f[i][1],
                      channels |-> f[i][2],
                      tag_language |-> f[i][3]]] :
        f \in [1..n -> Codecs \X Channels \X LanguageTags]}

InitPlan ==
    /\ plan_pc = "probe"
    /\ \E n \in 0..MaxStreams : raw_streams \in RawStreamLists(n)
    /\ languages_arg \in LanguageArgs
    /\ downmix \in BOOLEAN
    /\ audio_streams_details = <<>>
    /\ audio_ops_for_ffmpeg = <<>>
    /\ plan_verdict = "none"
    /\ ProgressOff
    /\ PathsOff
    /\ RunOff

\* audio_streams_details, get_info_logs = get_stream_info(filepath, "audio", ...)
PlanProbe ==
    /\ plan_pc = "probe"
    /\ audio_streams_details' = get_stream_info(raw_streams)
    /\ plan_pc' = "classify"
    /\ UNCHANGED <<raw_streams, languages_arg, downmix, audio_ops_for_ffmpeg, plan_verdict>>
    /\ UNCHANGED <<progressVars, pathVars, runVars>>

\* the classification loop
PlanClassify ==
    /\ plan_pc = "classify"
    /\ audio_ops_for_ffmpeg' =
           PrimaryOps(audio_streams_details, TargetLanguages(languages_arg))
    /\ plan_pc' = "downmix"
    /\ UNCHANGED <<raw_streams, languages_arg, downmix, audio_streams_details, plan_verdict>>
    /\ UNCHANGED <<progressVars, pathVars, runVars>>

\* the downmix block
PlanDownmix ==
    /\ plan_pc = "downmix"
    /\ audio_ops_for_ffmpeg' =
           WithDownmix(audio_ops_for_ffmpeg, audio_streams_details, downmix)
    /\ plan_pc' = "verdict"
    /\ UNCHANGED <<raw_streams, languages_arg, downmix, audio_streams_details, plan_verdict>>
    /\ UNCHANGED <<progressVars, pathVars, runVars>>

\* the two early returns, or falling through to the pre-flight checks
PlanVerdict ==
    /\ plan_pc = "verdict"
    /\ plan_verdict' = Verdict(audio_ops_for_ffmpeg)
    /\ plan_pc' = "planned"
    /\ UNCHANGED <<raw_streams, languages_arg, downmix, audio_streams_details,
                   audio_ops_for_ffmpeg>>
    /\ UNCHANGED <<progressVars, pathVars, runVars>>

NextPlan ==
    \/ PlanProbe
    \/ PlanClassify
    \/ PlanDownmix
    \/ PlanVerdict

SpecPlan == InitPlan /\ [][NextPlan]_vars


(***************************************************************************)
(* SpecProgress: the read loop of process_file_with_ffmpeg over every      *)
(* bounded sequence of lines on ffmpeg's stdout                            *)
(***************************************************************************)
MaxLines == 3

DigitChars == {"0", "1", "2", "3", "4", "5", "6", "7", "8", "9"}
Whitespace == {" ", "\n"}

\* the value of one decimal digit
Digit(c) ==
    CASE c = "0" -> 0 [] c = "1" -> 1 [] c = "2" -> 2 [] c = "3" -> 3 [] c = "4" -> 4
      [] c = "5" -> 5 [] c = "6" -> 6 [] c = "7" -> 7 [] c = "8" -> 8 [] c = "9" -> 9

\* str.strip(): leading and trailing whitespace removed
RECURSIVE StripLeft(_)
StripLeft(s) ==
    IF s # <<>> /\ Head(s) \in Whitespace THEN StripLeft(Tail(s)) ELSE s

RECURSIVE StripRight(_)
StripRight(s) ==
    IF s # <<>> /\ s[Len(s)] \in Whitespace THEN StripRight(SubSeq(s, 1, Len(s) - 1)) ELSE s

StripLine(s) == StripRight(StripLeft(s))

\* str.split("="): the fields between the "=" characters
RECURSIVE SplitEq(_)
SplitEq(s) ==
    IF \A i \in 1..Len(s) : s[i] # "="
    THEN <<s>>
    ELSE LET k == CHOOSE i \in 1..Len(s) : s[i] = "=" /\ \A j \in 1..(i - 1) : s[j] # "="
         IN  <<SubSeq(s, 1, k - 1)>> \o SplitEq(SubSeq(s, k + 1, Len(s)))

\* the value of a string of decimal digits
RECURSIVE DigitsValue(_)
DigitsValue(s) ==
    IF s = <<>> THEN 0
    ELSE 10 * DigitsValue(SubSeq(s, 1, Len(s) - 1)) + Digit(s[Len(s)])

IsDigits(s) == s # <<>> /\ \A i \in 1..Len(s) : s[i] \in DigitChars

\* int(text): surrounding whitespace is ignored, an optional sign, then digits;
\* anything else is a ValueError
ParseInt(text) ==
    LET t == StripLine(text)
    IN  IF IsDigits(t) THEN [error |-> "none", value |-> DigitsValue(t)]
        ELSE IF t # <<>> /\ Head(t) = "-" /\ IsDigits(Tail(t))
             THEN [error |-> "none", value |-> 0 - DigitsValue(Tail(t))]
        ELSE IF t # <<>> /\ Head(t) = "+" /\ IsDigits(Tail(t))
             THEN [error |-> "none", value |-> DigitsValue(Tail(t))]
        ELSE [error |-> "ValueError", value |-> 0]

\* "out_time_us" in line
HasMarker(line) == \E i \in 1..Len(line) : line[i] = "out_time_us"

\* int(line.strip().split("=")[1])
TimeUs(line) ==
    LET fields == SplitEq(StripLine(line))
    IN  IF Len(fields) < 2 THEN [error |-> "IndexError", value |-> 0]
        ELSE ParseInt(fields[2])

\* except (ValueError, IndexError): continue
CaughtErrors == {"ValueError", "IndexError"}

Max(a, b) == IF a >= b THEN a ELSE b

\* file_pbar.n after the marker, without the clamp and the test of the amount
UpdatedN_Unclamped(n, elapsed) == n + (elapsed - n)

\* update_amount = max(0, elapsed_seconds - file_pbar.n); file_pbar.update(update_amount)
\* when it is positive: file_pbar.n after the marker (seconds are held in microseconds)
UpdatedN(n, elapsed) ==
    LET update_amount == Max(0, elapsed - n)
    IN  IF update_amount > 0 THEN n + update_amount ELSE n

\* The lines ffmpeg may print with -progress pipe:1, and broken ones
MarkerLine(text) == <<"out_time_us", "=">> \o text \o <<"\n">>

StdoutLines ==
    { MarkerLine(<<"0">>), MarkerLine(<<"1">>), MarkerLine(<<"2">>), MarkerLine(<<"1", "0">>),
      MarkerLine(<<"-", "1">>), MarkerLine(<<"N", "/", "A">>), MarkerLine(<<>>),
      <<"out_time_us", "\n">>, <<"frame", "=", "7", "\n">> }

InitProgress ==
    /\ progress_pc = "reading"
    /\ stdout_lines \in UNION {[1..n -> StdoutLines] : n \in 0..MaxLines}
    /\ line_no = 0
    /\ duration \in {0, 2}
    /\ file_pbar_n = 0
    /\ plan_pc = "off"
    /\ raw_streams = <<>>
    /\ languages_arg = <<"eng", "jpn">>
    /\ downmix = FALSE
    /\ audio_streams_details = <<>>
    /\ audio_ops_for_ffmpeg = <<>>
    /\ plan_verdict = "none"
    /\ PathsOff
    /\ RunOff

\* one turn of `for line in process.stdout`
ReadLine ==
    /\ progress_pc = "reading"
    /\ line_no < Len(stdout_lines)
    /\ line_no' = line_no + 1
    /\ LET line == stdout_lines[line_no + 1]
           time_us == TimeUs(line)
       IN  IF ~HasMarker(line)
           THEN UNCHANGED <<progress_pc, file_pbar_n>>
           ELSE IF time_us.error # "none"
           THEN /\ progress_pc' = IF time_us.error \in CaughtErrors THEN "reading" ELSE "raised"
                /\ UNCHANGED file_pbar_n
           ELSE /\ file_pbar_n' = IF duration > 0 THEN UpdatedN(file_pbar_n, time_us.value)
                                  ELSE file_pbar_n
                /\ UNCHANGED progress_pc
    /\ UNCHANGED <<stdout_lines, duration>>
    /\ UNCHANGED <<planVars, pathVars, runVars>>

\* the loop ends with the stream: process.wait(), file_pbar.close()
ReadEnd ==
    /\ progress_pc = "reading"
    /\ line_no = Len(stdout_lines)
    /\ progress_pc' = "waited"
    /\ UNCHANGED <<stdout_lines, line_no, duration, file_pbar_n>>
    /\ UNCHANGED <<planVars, pathVars, runVars>>

NextProgress ==
    \/ ReadLine
    \/ ReadEnd

SpecProgress == InitProgress /\ [][NextProgress]_vars

(***************************************************************************)
(* SpecPaths: file discovery and the output path of every discovered file  *)
(***************************************************************************)
MaxListed == 3

\* the files os.walk may find (see Catalog)
CatalogIds == {0, 1, 2, 3, 4, 5, 6}

\* the values of args.output_directory_base: none, a folder of its own, the input
\* folder itself, a folder inside the input folder
OutputBases == {"none", "out", "in", "in/sub"}

InitPaths ==
    /\ paths_pc = "discover"
    /\ resolved = <<>>
    /\ dir_listing \in {S \in SUBSET CatalogIds : Cardinality(S) <= MaxListed}
    /\ output_directory_base \in OutputBases
    /\ tools_present = TRUE
    /\ fs = <<>>
    /\ fs0 = <<>>
    /\ dirs = {}
    /\ jobs = 1
    /\ force_reprocess = FALSE
    /\ dry_run = FALSE
    /\ MainAtStart
    /\ ProgressOff
    /\ plan_pc = "off"
    /\ raw_streams = <<>>
    /\ languages_arg = <<"eng", "jpn">>
    /\ downmix = FALSE
    /\ audio_streams_details = <<>>
    /\ audio_ops_for_ffmpeg = <<>>
    /\ plan_verdict = "none"

\* the loop over os.walk(input_path_abs)
PathsDiscover ==
    /\ paths_pc = "discover"
    /\ files_to_process_paths' = Discovered(dir_listing)
    /\ paths_pc' = "resolve"
    /\ UNCHANGED <<resolved, planVars, progressVars, envVars, argVars, main_pc, num_jobs,
                   submitted, stats, overall, collecting, counted_as, poolVars, jobVars,
                   fs, dirs, tqdm_lock>>

\* the job of the next discovered file works out final_output_filepath and
\* temp_filepath
PathsResolve ==
    /\ paths_pc = "resolve"
    /\ Len(resolved) < Len(files_to_process_paths)
    /\ LET f == files_to_process_paths[Len(resolved) + 1]
       IN  resolved' = Append(resolved,
               [filepath |-> InputPath(f),
                final_output_filepath |-> FinalPath(f, output_directory_base),
                temp_filepath |-> TempPath(f, output_directory_base)])
    /\ UNCHANGED <<paths_pc, planVars, progressVars, runVars>>

NextPaths ==
    \/ PathsDiscover
    \/ PathsResolve

SpecPaths == InitPaths /\ [][NextPaths]_vars

(***************************************************************************)
(* Spec: a run of main()                                                   *)
(***************************************************************************)
Next ==
    \/ MainToolsMissing
    \/ DiscoverNone
    \/ Discover
    \/ Submit
    \/ \E t \in Threads : WorkerInit(t)
    \/ \E t \in Threads : TakeWork(t)
    \/ \E f \in Files : ProbeAndSkip(f)
    \/ \E f \in Files : ProbeAndProceed(f)
    \/ \E f \in Files : MakedirsFails(f)
    \/ \E f \in Files : StartFfmpeg(f)
    \/ \E f \in Files : DurationProbeRaises(f)
    \/ \E f \in Files : PopenRaises(f)
    \/ \E f \in Files : ToolWrite(f)
    \/ \E f \in Files : ToolProgress(f)
    \/ \E f \in Files : ToolExit(f)
    \/ \E f \in Files : PromoteRename(f)
    \/ \E f \in Files : RejectEmpty(f)
    \/ \E f \in Files : RejectEmptyRaises(f)
    \/ \E f \in Files : ReportToolError(f)
    \/ \E f \in Files : CleanupRemove(f)
    \/ \E f \in Files : CleanupRemoveFails(f)
    \/ \E f \in Files : SkipAcquireLock(f)
    \/ \E f \in Files : AcquireLock(f)
    \/ \E f \in Files : WriteLogs(f)
    \/ \E f \in Files : CollectResult(f)
    \/ \E f \in Files : CollectException(f)
    \/ ReportException
    \/ Summary
    \/ Interrupt
    \/ InterruptReturn

Spec == Init /\ [][Next]_vars

(***************************************************************************)
(* SpecLive: a run of main() that no KeyboardInterrupt ends, in which      *)
(* every thread and every started tool that can take a step takes one      *)
(***************************************************************************)
NextLive ==
    \/ MainToolsMissing
    \/ DiscoverNone
    \/ Discover
    \/ Submit
    \/ \E t \in Threads : WorkerInit(t)
    \/ \E t \in Threads : TakeWork(t)
    \/ \E f \in Files : ProbeAndSkip(f)
    \/ \E f \in Files : ProbeAndProceed(f)
    \/ \E f \in Files : MakedirsFails(f)
    \/ \E f \in Files : StartFfmpeg(f)
    \/ \E f \in Files : DurationProbeRaises(f)
    \/ \E f \in Files : PopenRaises(f)
    \/ \E f \in Files : ToolWrite(f)
    \/ \E f \in Files : ToolProgress(f)
    \/ \E f \in Files : ToolExit(f)
    \/ \E f \in Files : PromoteRename(f)
    \/ \E f \in Files : RejectEmpty(f)
    \/ \E f \in Files : RejectEmptyRaises(f)
    \/ \E f \in Files : ReportToolError(f)
    \/ \E f \in Files : CleanupRemove(f)
    \/ \E f \in Files : CleanupRemoveFails(f)
    \/ \E f \in Files : SkipAcquireLock(f)
    \/ \E f \in Files : AcquireLock(f)
    \/ \E f \in Files : WriteLogs(f)
    \/ \E f \in Files : CollectResult(f)
    \/ \E f \in Files : CollectException(f)
    \/ ReportException
    \/ Summary

SpecLive == Init /\ [][NextLive]_vars /\ WF_vars(NextLive)

(***************************************************************************)
(* Properties of the planner (checked under SpecPlan)                      *)
(***************************************************************************)
Classified == plan_pc \in {"downmix", "verdict", "planned"}

\* The positions of the primary (copy / transcode) ops of the stream with this index
PrimaryOpsOf(index) ==
    {k \in 1..Len(audio_ops_for_ffmpeg) :
        /\ audio_ops_for_ffmpeg[k].index = index
        /\ audio_ops_for_ffmpeg[k].op # "downmix"}

\* The positions of the downmix ops of the stream with this index
DownmixOpsOf(ops, index) ==
    {k \in 1..Len(ops) : ops[k].index = index /\ ops[k].op = "downmix"}

IsDownmixOp(op) == op.op = "downmix"
IsPrimaryOp(op) == op.op # "downmix"

\* C4: once the classification loop has run, every probed stream has exactly one
\* primary classification: no action when its language is not a target language
\* (whatever its codec and channels), one transcode action when its language is a
\* target language, it has 6 channels and its codec is neither ac3 nor eac3, and one
\* copy action in every other case (unknown channel count and 6-channel ac3/eac3
\* included).
C4_Classification ==
    Classified =>
        \A i \in 1..Len(audio_streams_details) :
            LET s == audio_streams_details[i]
                prim == PrimaryOpsOf(s.index)
            IN  IF s.language \notin TargetLanguages(languages_arg)
                THEN prim = {}
                ELSE /\ Cardinality(prim) = 1
                     /\ \A k \in prim :
                            audio_ops_for_ffmpeg[k].op =
                                IF s.channels = 6 /\ s.codec_name \notin {"ac3", "eac3"}
                                THEN "transcode" ELSE "copy"

\* A plan with a dropped 6-channel stream next to a copied stream of unknown
\* channel count, or a transcoded stream next to a copied 6-channel eac3 stream
C4_Witness ==
    /\ plan_pc = "planned"
    /\ Len(audio_streams_details) = 2
    /\ \/ /\ audio_streams_details[1].language \notin TargetLanguages(languages_arg)
          /\ audio_streams_details[1].channels = 6
          /\ audio_streams_details[2].channels = NullChannels
          /\ \E k \in PrimaryOpsOf(audio_streams_details[2].index) :
                audio_ops_for_ffmpeg[k].op = "copy"
       \/ /\ \E k \in PrimaryOpsOf(audio_streams_details[1].index) :
                audio_ops_for_ffmpeg[k].op = "transcode"
          /\ audio_streams_details[2].codec_name = "eac3"
          /\ audio_streams_details[2].channels = 6
          /\ \E k \in PrimaryOpsOf(audio_streams_details[2].index) :
                audio_ops_for_ffmpeg[k].op = "copy"

\* C5: the verdict of a planned file is no_ops exactly when the action list is
\* empty, no_transcode_needed exactly when the list is non-empty and holds neither a
\* transcode nor a downmix action, and needs_processing in every other case.
C5_Verdict ==
    plan_pc = "planned" =>
        LET ops == audio_ops_for_ffmpeg
            heavy == \E k \in 1..Len(ops) : ops[k].op \in {"transcode", "downmix"}
        IN  /\ plan_verdict \in {"no_ops", "no_transcode_needed", "needs_processing"}
            /\ plan_verdict = "no_ops" <=> Len(ops) = 0
            /\ plan_verdict = "no_transcode_needed" <=> (Len(ops) > 0 /\ ~heavy)
            /\ plan_verdict = "needs_processing" <=> (Len(ops) > 0 /\ heavy)

\* A plan whose only re-encoding action is a downmix gets needs_processing
C5_Witness ==
    /\ plan_pc = "planned"
    /\ plan_verdict = "needs_processing"
    /\ \A k \in 1..Len(audio_ops_for_ffmpeg) : audio_ops_for_ffmpeg[k].op # "transcode"
    /\ \E k \in 1..Len(audio_ops_for_ffmpeg) : audio_ops_for_ffmpeg[k].op = "copy"

\* C6: the downmix block leaves the primary actions as they are and in place; with
\* downmix enabled it adds exactly one downmix action for each primary action whose
\* source stream has 6 channels and none for any other stream, and with downmix
\* disabled it adds none.
C6_DownmixStep ==
    plan_pc = "downmix" =>
        /\ SelectSeq(audio_ops_for_ffmpeg', IsPrimaryOp) = audio_ops_for_ffmpeg
        /\ \A i \in 1..Len(audio_streams_details) :
               LET s == audio_streams_details[i]
               IN  Cardinality(DownmixOpsOf(audio_ops_for_ffmpeg', s.index)) =
                       IF downmix /\ s.channels = 6 /\ PrimaryOpsOf(s.index) # {}
                       THEN 1 ELSE 0
        /\ \A k \in 1..Len(audio_ops_for_ffmpeg') :
               \E i \in 1..Len(audio_streams_details) :
                   audio_streams_details[i].index = audio_ops_for_ffmpeg'[k].index

C6_Downmix == [][C6_DownmixStep]_vars

\* Downmix enabled: a copied 6-channel eac3 stream got its downmix action and a
\* copied stereo stream got none
C6_Witness ==
    /\ plan_pc = "planned"
    /\ downmix
    /\ Len(audio_streams_details) = 2
    /\ audio_streams_details[1].channels = 6
    /\ audio_streams_details[1].codec_name = "eac3"
    /\ audio_streams_details[2].channels = 2
    /\ Len(audio_ops_for_ffmpeg) = 3
    /\ audio_ops_for_ffmpeg[3].op = "downmix"
    /\ audio_ops_for_ffmpeg[3].index = audio_streams_details[1].index

(***************************************************************************)
(* Properties of a run (checked under Spec)                                *)
(***************************************************************************)
\* The media files of the input folder
Media == dir_listing \cap Files

Final(f) == FinalPath(f, output_directory_base)
Temp(f) == TempPath(f, output_directory_base)

\* The file's job is inside process_single_file
Executing(f) == job_pc[f] \notin {"unsubmitted", "queued", "done"}

\* The file's job is past the early returns and the duration probe: it called
\* the transcode runner (an exception that leaves the job after its log lines
\* were written comes out of the try block around that call)
ReachedExecuting(f) ==
    \/ job_pc[f] \in {"ffmpeg", "exited", "cleanup", "log", "logging"}
    \/ job_pc[f] = "done" /\ (tool_runs[f] > 0 \/ (raised[f] /\ log_blocks[f] > 0))

\* The file's job has taken one of its exits (an early return or the transcoder)
Decided(f) == job_pc[f] \notin {"unsubmitted", "queued", "probe"}

\* min(maxParallelism, number of discovered files)
PoolSize == Min(jobs, Len(files_to_process_paths))

SumStats ==
    stats["processed"] + stats["skipped_no_ops"] + stats["skipped_no_transcode"]
    + stats["skipped_identical_path"] + stats["skipped_existing"] + stats["failed"]

RECURSIVE SumCounted(_)
SumCounted(S) ==
    IF S = {} THEN 0
    ELSE LET f == CHOOSE x \in S : TRUE
         IN  Len(counted_as[f]) + SumCounted(S \ {f})

\* What this run wrote is in a temp file of the job that wrote it, or is a
\* complete file at that job's final path
WrittenOnlyToTemp ==
    \A f \in Media : \A p \in DOMAIN fs :
        fs[p].by = f =>
            \/ p = Temp(f)
            \/ p = Final(f) /\ fs[p].kind = "complete"

\* A final path changes only by the rename of a non-empty temp file whose
\* transcoder has exited with code 0
FinalChangesByRename ==
    \A f \in Media :
        fs'[Final(f)] # fs[Final(f)] =>
            /\ job_pc[f] = "exited"
            /\ returncode[f] = 0
            /\ Exists(fs[Temp(f)]) /\ NonEmpty(fs[Temp(f)])
            /\ fs'[Final(f)] = fs[Temp(f)]

\* C1: in every state of a run the transcoder's writes are in <finalPath>.tmp only,
\* and a step that changes <finalPath> is the rename of the temp file, taken after
\* the transcoder exited with code 0 and with the temp file present and non-empty;
\* so what the run leaves at a final path is a complete file of an exit-0 transcoder.
C1_TempThenRename == [](WrittenOnlyToTemp) /\ [][FinalChangesByRename]_vars

\* A job has promoted a complete temp file over an older output
C1_Witness ==
    \E f \in Media :
        /\ fs[Final(f)] = Complete(f)
        /\ fs0[Final(f)] = OldOutput
        /\ job_pc[f] = "done"

CountedOnce ==
    /\ \A f \in Files : Len(counted_as[f]) <= 1
    /\ SumStats = SumCounted(Files)
    /\ main_pc = "summary" =>
           /\ \A i \in 1..Len(files_to_process_paths) :
                  Len(counted_as[files_to_process_paths[i]]) = 1
           /\ SumStats = Len(files_to_process_paths)

\* The counters change only in a step of the as_completed loop of the main thread,
\* one counter by one
CountedByCollector ==
    stats' # stats =>
        /\ main_pc = "collect"
        /\ \E k \in StatKeys : stats' = [stats EXCEPT ![k] = @ + 1]

\* C3: when a run gets to its summary every discovered file has incremented exactly
\* one counter exactly once (a file whose job raised included), so the six counters
\* add up to the number of discovered files; and the counters change only in steps
\* of the collecting loop of the main thread, one counter at a time.
C3_CountedOnce == [](CountedOnce) /\ [][CountedByCollector]_vars

\* A summary over two files, one of them counted failed because its job raised
C3_Witness ==
    /\ main_pc = "summary"
    /\ Len(files_to_process_paths) = 2
    /\ stats["failed"] = 1
    /\ \E f \in Media : raised[f]

\* The slots of the executing jobs are distinct and within 1..poolSize
SlotsDistinct ==
    \A f \in Files :
        Executing(f) =>
            /\ pbar_position[f] \in 1..PoolSize
            /\ \A g \in Files \ {f} : Executing(g) => pbar_position[g] # pbar_position[f]

\* The slot of a job stays what it is while the job executes
SlotStable ==
    \A f \in Files :
        (Executing(f) /\ job_pc'[f] # "done" /\ job_pc'[f] # "unsubmitted") =>
            pbar_position'[f] = pbar_position[f]

\* C7: at every moment the progress slots of the executing jobs are pairwise
\* distinct and lie in 1..poolSize, and a job keeps its slot while it executes.
C7_Slots == [](SlotsDistinct) /\ [][SlotStable]_vars

\* Two jobs execute at once, and the first worker thread holds the second slot
C7_Witness ==
    \E f, g \in Files :
        /\ f # g
        /\ Executing(f) /\ Executing(g)
        /\ job_thread[f] = 1
        /\ pbar_position[f] = 2

\* C8: never more than min(maxParallelism, number of discovered files) jobs execute
\* at once, and no worker thread runs two jobs at once: a worker takes its next file
\* only when the job it ran has returned.
C8_BoundedPool ==
    /\ Cardinality({f \in Files : Executing(f)}) <= PoolSize
    /\ \A f \in Files :
           Executing(f) =>
               /\ job_thread[f] \in Threads
               /\ thr[job_thread[f]] = "busy"
               /\ \A g \in Files \ {f} : Executing(g) => job_thread[g] # job_thread[f]

\* One job allowed at a time: a file waits in the queue while another executes
C8_Witness ==
    /\ jobs = 1
    /\ \E f, g \in Files :
           /\ job_pc[f] = "queued"
           /\ job_pc[g] = "ffmpeg"

\* C9: a job that fails or raises is counted as failed for its own file; every
\* other file is counted with the outcome its own job returned; and the main thread,
\* when no interrupt ends the run, leaves the collecting loop only with every
\* discovered file counted.
C9_FailureIsolated ==
    /\ \A f \in Files :
           counted_as[f] # <<>> =>
               counted_as[f] = <<IF raised[f] THEN "failed" ELSE final_status[f]>>
    /\ main_pc \notin {"start", "no_tools", "no_files", "submit", "collect",
                      "interrupted", "interrupt_return"} =>
           \A i \in 1..Len(files_to_process_paths) :
               counted_as[files_to_process_paths[i]] # <<>>

\* The run got to its summary with one job that raised, counted failed, and
\* another that was processed
C9_Witness ==
    /\ main_pc = "summary"
    /\ \E f, g \in Media :
           /\ raised[f]
           /\ counted_as[f] = <<"failed">>
           /\ ~raised[g]
           /\ counted_as[g] = <<"processed">>
           /\ fs[Final(g)] = Complete(g)

\* C10 (as claimed): whenever the output path of a file existed and force-reprocess
\* is false, the job's outcome is skipped_existing, the transcoder is not started
\* for the file and the output file is as it was.
C10_ExistingAlwaysSkippedExisting ==
    \A f \in Media :
        (Decided(f) /\ Exists(fs0[Final(f)]) /\ ~force_reprocess) =>
            /\ final_status[f] = "skipped_existing"
            /\ tool_runs[f] = 0
            /\ fs[Final(f)] = fs0[Final(f)]

\* C10 (amended): whenever the output path of a file existed and force-reprocess is
\* false, the transcoder is not started for the file and the output file is as it
\* was; the job's outcome is skipped_existing when the verdict of its plan is
\* needs_processing, and the skip outcome of its verdict (skipped_no_ops,
\* skipped_no_transcode) otherwise.
C10_ExistingSkipped ==
    \A f \in Media :
        (Decided(f) /\ Exists(fs0[Final(f)]) /\ ~force_reprocess) =>
            /\ tool_runs[f] = 0
            /\ fs[Final(f)] = fs0[Final(f)]
            /\ verdict[f] = "needs_processing" => final_status[f] = "skipped_existing"
            /\ verdict[f] = "no_ops" => final_status[f] = "skipped_no_ops"
            /\ verdict[f] = "no_transcode_needed" => final_status[f] = "skipped_no_transcode"
            /\ final_status[f] \in {"skipped_existing", "skipped_no_ops",
                                    "skipped_no_transcode"}

\* A job found the output of an earlier run and returned skipped_existing
C10_Witness ==
    \E f \in Media :
        /\ job_pc[f] = "done"
        /\ final_status[f] = "skipped_existing"
        /\ fs0[Final(f)] = OldOutput
        /\ fs[Final(f)] = OldOutput
        /\ ~force_reprocess

\* The steps of a job that are past the early returns of process_single_file
ExecutingPcs == {"duration", "ffmpeg", "exited", "cleanup", "log", "logging"}

\* In a dry run no job gets past the early returns or starts the transcoder, the
\* filesystem is as the run found it, and a job with work to do and no skip
\* condition has the status processed
DryRunState ==
    dry_run =>
        /\ fs = fs0
        /\ \A f \in Media :
               /\ tool_runs[f] = 0
               /\ job_pc[f] \notin ExecutingPcs
               /\ ~raised[f]
               /\ (/\ job_pc[f] \in {"skip_log", "skip_logging"}
                   /\ verdict[f] = "needs_processing"
                   /\ ~(Exists(fs[Final(f)]) /\ ~force_reprocess)
                   /\ InputPath(f) # Final(f))
                  => final_status[f] = "processed"

\* In a dry run no step creates a directory or changes a file
DryRunStep == dry_run => (dirs' = dirs /\ fs' = fs)

\* C11: when dry-run is true and a job's verdict is needs_processing with no skip
\* condition, the job's outcome is processed, the transcoder is never started, and
\* nothing is written: no directory is created, no temp file, no rename.
C11_DryRun == [](DryRunState) /\ [][DryRunStep]_vars

\* A dry run returned processed for a file whose output directory does not exist
C11_Witness ==
    /\ dry_run
    /\ \E f \in Media :
           /\ job_pc[f] = "done"
           /\ final_status[f] = "processed"
           /\ tool_runs[f] = 0
           /\ OutputDir(f, output_directory_base) \notin dirs
           /\ fs = fs0

NoWorkVerdicts == {"no_ops", "no_transcode_needed"}

\* A job whose plan has nothing to do goes to its early return with the status of
\* its verdict, without a transcoder run and with its output paths untouched
NoWorkState ==
    \A f \in Media :
        /\ verdict[f] = "no_ops" =>
               (final_status[f] = "skipped_no_ops" /\ job_pc[f] \in {"skip_log", "skip_logging"})
        /\ verdict[f] = "no_transcode_needed" =>
               (final_status[f] = "skipped_no_transcode"
                /\ job_pc[f] \in {"skip_log", "skip_logging"})
        /\ final_status[f] \in {"skipped_no_ops", "skipped_no_transcode"} =>
               /\ tool_runs[f] = 0
               /\ ~raised[f]
               /\ fs[Final(f)] = fs0[Final(f)]
               /\ fs[Temp(f)] = fs0[Temp(f)]

\* The steps of such a job write nothing
NoWorkStep ==
    \A f \in Media :
        (job_pc'[f] # job_pc[f] /\ (verdict[f] \in NoWorkVerdicts \/ verdict'[f] \in NoWorkVerdicts))
            => (fs' = fs /\ dirs' = dirs)

\* C12: a file whose verdict is no_ops ends skipped_no_ops and one whose verdict is
\* no_transcode_needed ends skipped_no_transcode; the transcoder is not started and
\* the job writes nothing, whatever dry-run and force-reprocess are.
C12_NoWorkSkips == [](NoWorkState) /\ [][NoWorkStep]_vars

\* With force-reprocess set and an older output in place, a job whose plan only
\* copies returned skipped_no_transcode
C12_Witness ==
    /\ force_reprocess
    /\ ~dry_run
    /\ \E f \in Media :
           /\ job_pc[f] = "done"
           /\ final_status[f] = "skipped_no_transcode"
           /\ fs0[Final(f)] = OldOutput
           /\ fs[Final(f)] = OldOutput

\* With a tool missing main() has discovered, submitted, started and counted nothing
ToolsMissingState ==
    ~tools_present =>
        /\ main_pc \in {"start", "no_tools"}
        /\ files_to_process_paths = <<>>
        /\ submitted = 0
        /\ work_queue = <<>>
        /\ \A t \in Threads : thr[t] = "none"
        /\ \A f \in Files : job_pc[f] = "unsubmitted" /\ tool_runs[f] = 0
        /\ stats = ZeroStats
        /\ overall = 0
        /\ fs = fs0

\* With a tool missing the only step of main() is the report, and none follows it
ToolsMissingStep ==
    /\ (~tools_present /\ main_pc = "start") => main_pc' = "no_tools"
    /\ main_pc = "no_tools" => UNCHANGED vars

\* C13: if ffmpeg or ffprobe is missing when the run starts, the run reports it once
\* and ends: no file is discovered or dispatched, no job starts, no counter moves.
C13_ToolsMissing == [](ToolsMissingState) /\ [][ToolsMissingStep]_vars

\* The run ended on the missing tools with a media file in the folder
C13_Witness ==
    /\ ~tools_present
    /\ main_pc = "no_tools"
    /\ 1 \in dir_listing

\* Once the main thread has its interrupt, a job that is unsubmitted or queued
\* stays so
NoStartAfterInterrupt ==
    main_pc \in {"interrupted", "interrupt_return"} =>
        \A f \in Files :
            job_pc[f] \in {"unsubmitted", "queued"} => job_pc'[f] = job_pc[f]

\* C14 (as claimed): once the main thread has received its interrupt, no file
\* whose job has not started begins executing: submission has stopped and only the
\* jobs already in flight go on.
C14_NoStartAfterInterrupt == [][NoStartAfterInterrupt]_vars

\* A final path holds what the run found there, or the complete file its job
\* promoted; a job with the status failed or with an exception has left it alone
FinalOldOrComplete ==
    \A f \in Media :
        /\ fs[Final(f)] # fs0[Final(f)] =>
               /\ fs[Final(f)] = Complete(f)
               /\ final_status[f] = "processed"
               /\ tool_runs[f] = 1
        /\ (Decided(f) /\ (final_status[f] = "failed" \/ raised[f])) =>
               fs[Final(f)] = fs0[Final(f)]

\* A final path changes from what the run found there to a complete file, so at
\* most once
FinalChangesOnce ==
    \A f \in Media :
        fs'[Final(f)] # fs[Final(f)] =>
            /\ fs[Final(f)] = fs0[Final(f)]
            /\ fs'[Final(f)] = Complete(f)

\* C15: what can be seen at a job's final output path changes at most once per job
\* and only by the rename of a complete temp file; when the job ends failed, or is
\* cut short while the transcoder runs, the final path holds what it held before,
\* also with force-reprocess set and an older output in place.
C15_FinalAtomic == [](FinalOldOrComplete) /\ [][FinalChangesOnce]_vars

\* With force-reprocess set, the transcoder ran over an older output and failed:
\* the older output is still there
C15_Witness ==
    /\ force_reprocess
    /\ \E f \in Media :
           /\ job_pc[f] = "done"
           /\ tool_runs[f] = 1
           /\ final_status[f] = "failed"
           /\ fs0[Final(f)] = OldOutput
           /\ fs[Final(f)] = OldOutput

\* The place of a stream in the order of the probe (0: no such stream)
StreamPos(index) == OrigStream(audio_streams_details, index)

\* C16: in every plan the primary actions are in the order their streams were
\* probed, every downmix action comes after the primary action of its stream, and
\* the downmix actions are in the order of their primary actions.
C16_PlanOrder ==
    Classified =>
        LET ops == audio_ops_for_ffmpeg
        IN  /\ \A i, j \in 1..Len(ops) :
                   (i < j /\ IsPrimaryOp(ops[i]) /\ IsPrimaryOp(ops[j])) =>
                       /\ StreamPos(ops[i].index) # 0
                       /\ StreamPos(ops[i].index) < StreamPos(ops[j].index)
            /\ \A j \in 1..Len(ops) :
                   IsDownmixOp(ops[j]) =>
                       \E i \in 1..(j - 1) :
                           IsPrimaryOp(ops[i]) /\ ops[i].index = ops[j].index
            /\ \A i, j \in 1..Len(ops) :
                   (i < j /\ IsDownmixOp(ops[i]) /\ IsDownmixOp(ops[j])) =>
                       StreamPos(ops[i].index) < StreamPos(ops[j].index)

\* A finished plan of two 6-channel streams: transcode, copy, downmix, downmix
C16_Witness ==
    /\ plan_pc = "planned"
    /\ Len(audio_ops_for_ffmpeg) = 4
    /\ audio_ops_for_ffmpeg[1].op = "transcode"
    /\ audio_ops_for_ffmpeg[2].op = "copy"
    /\ audio_ops_for_ffmpeg[3].op = "downmix"
    /\ audio_ops_for_ffmpeg[3].index = audio_ops_for_ffmpeg[1].index
    /\ audio_ops_for_ffmpeg[4].op = "downmix"
    /\ audio_ops_for_ffmpeg[4].index = audio_ops_for_ffmpeg[2].index

\* process_file_with_ffmpeg has run the transcoder and returned False: the caller
\* has the status failed and is at its finally block
RunnerReturnedFailure(f) ==
    /\ job_pc[f] = "cleanup"
    /\ tool_runs[f] > 0
    /\ ~raised[f]
    /\ final_status[f] = "failed"

\* C17 (as claimed): whenever process_file_with_ffmpeg returns failure, for a
\* non-zero exit of the transcoder as for exit 0 with a missing or empty temp file,
\* no file is at <finalPath>.tmp at the moment it returns.
C17_RunnerRemovesTemp ==
    \A f \in Media : RunnerReturnedFailure(f) => ~Exists(fs[Temp(f)])

\* C18 (as claimed): when a job ends before the executing state (a skip, a dry run,
\* a directory that could not be created) and a file of an earlier run is at
\* <finalPath>.tmp, that file is gone when the job has reported its outcome.
C18_SkipRemovesResidual ==
    \A f \in Media :
        (job_pc[f] = "done" /\ ~ReachedExecuting(f) /\ Exists(fs0[Temp(f)])) =>
            ~Exists(fs[Temp(f)])

\* A step in which the file's job writes its log lines
WritesLogLines(f) ==
    job_pc[f] \in {"skip_logging", "logging"} /\ job_pc'[f] = "done"

\* A step in which the file's job creates, updates or closes its progress bar
WritesFileBar(f) ==
    file_pbar'[f] # file_pbar[f] /\ file_pbar'[f] # "none"

\* A step in which the main thread writes the error line of a job that raised
WritesErrorLine == collecting # 0 /\ collecting' = 0

\* A step that ends with pbar.update(1) on the overall bar
WritesOverallBar == overall' # overall

\* Every step that writes to the progress / log device is taken by a thread that
\* holds tqdm_lock while it writes
WritesUnderLock ==
    /\ \A f \in Files :
           /\ WritesLogLines(f) => job_thread[f] \in tqdm_lock
           /\ WritesFileBar(f) => job_thread[f] \in tqdm_lock
    /\ WritesErrorLine => MainThread \in tqdm_lock
    /\ WritesOverallBar => MainThread \in tqdm_lock'

\* C19 (as claimed): every write to the shared progress / log device, by any
\* thread (the log lines of a file, the creation, update and close of a per-file
\* bar, the increment of the overall bar), is made while holding tqdm_lock.
C19_WritesUnderLock == [][WritesUnderLock]_vars

\* The steps at which a job waits for ffprobe or ffmpeg or reads ffmpeg's output
BlockedOnSubprocess(f) == job_pc[f] \in {"probe", "duration", "ffmpeg"}

\* C20: in every reachable state a worker that is blocked on ffprobe or ffmpeg, or
\* reads ffmpeg's output, does not hold tqdm_lock (which has one holder at most), so
\* a slow file never keeps another file from writing its log lines.
C20_NoLockAcrossSubprocess ==
    /\ Cardinality(tqdm_lock) <= 1
    /\ \A f \in Files : BlockedOnSubprocess(f) => job_thread[f] \notin tqdm_lock

\* One job writes its log lines under the lock while the transcoder of another runs
C20_Witness ==
    \E f, g \in Files :
        /\ job_pc[f] = "ffmpeg"
        /\ job_pc[g] \in {"skip_logging", "logging"}
        /\ tqdm_lock = {job_thread[g]}


(***************************************************************************)
(* Per-file progress                                                       *)
(***************************************************************************)
\* the line the loop is about to read
NextLine == stdout_lines[line_no + 1]

\* the line is a marker whose number cannot be read
Malformed(line) == HasMarker(line) /\ TimeUs(line).error # "none"

\* the line is a marker whose time lies below the progress shown
BelowProgress(line) ==
    HasMarker(line) /\ TimeUs(line).error = "none" /\ TimeUs(line).value < file_pbar_n

ProgressStep ==
    /\ file_pbar_n' >= file_pbar_n
    /\ line_no' = line_no + 1 /\ BelowProgress(NextLine) => file_pbar_n' = file_pbar_n
    /\ line_no' = line_no + 1 /\ Malformed(NextLine) =>
           /\ file_pbar_n' = file_pbar_n
           /\ progress_pc' = "reading"

\* C21: whatever lines ffmpeg prints, file_pbar.n is never negative and never
\* decreases; a marker below the progress shown leaves it as it is, and a marker
\* that cannot be read leaves it as it is and the loop goes on to the next line
C21_ProgressMonotonic ==
    /\ [](file_pbar_n >= 0 /\ progress_pc # "raised")
    /\ [][ProgressStep]_vars

\* the stream was read to its end, and it held a marker below the progress shown
\* when it was read, a negative one and an unreadable one, after progress was made
C21_Witness ==
    /\ progress_pc = "waited"
    /\ file_pbar_n = 2
    /\ stdout_lines = <<MarkerLine(<<"2">>), MarkerLine(<<"1">>), MarkerLine(<<"N", "/", "A">>)>>

(***************************************************************************)
(* Probe failures                                                          *)
(***************************************************************************)
\* an exception starts to propagate out of the file's job in this step
Raises(f) == raised'[f] /\ ~raised[f]

ProbeFailureStep ==
    \A f \in Media : Raises(f) => job_pc'[f] # "done"

\* C22: a failure of ffprobe never ends a job with an exception or with the
\* status failed: a job with the empty stream list takes the no_ops return, and
\* no exception leaves a job from a probe (an exception comes out of the runner
\* call and passes the finally block before it leaves the job)
C22_ProbeFailureNotFatal ==
    /\ [](\A f \in Media :
             (job_pc[f] \in {"skip_log", "skip_logging"} /\ verdict[f] = "no_ops") =>
                 final_status[f] = "skipped_no_ops")
    /\ [][ProbeFailureStep]_vars

(***************************************************************************)
(* Directory creation                                                      *)
(***************************************************************************)
\* The job of f passes the early returns in this step with its output directory
\* missing, and the directory is still missing after the step: os.makedirs failed
MakedirsFailedStep(f) ==
    /\ job_pc[f] = "probe"
    /\ job_pc'[f] # "probe"
    /\ PreflightOutcome(f, verdict'[f]) = "proceed"
    /\ OutputDir(f, output_directory_base) \notin dirs'

\* What such a step does: the job goes to report failed; nothing on disk, no other
\* job and nothing of main() changes
MakedirsFailureStep ==
    \A f \in Media :
        MakedirsFailedStep(f) =>
            /\ job_pc'[f] = "skip_log"
            /\ final_status'[f] = "failed"
            /\ ~raised'[f]
            /\ tool_runs' = tool_runs
            /\ fs' = fs
            /\ \A g \in Files \ {f} :
                   /\ job_pc'[g] = job_pc[g]
                   /\ final_status'[g] = final_status[g]
                   /\ raised'[g] = raised[g]
            /\ UNCHANGED <<mainVars, poolVars, tqdm_lock>>

\* A job on its way to report a failure met before the transcoder
FailedBeforeRunner(f) ==
    job_pc[f] \in {"skip_log", "skip_logging"} /\ final_status[f] = "failed"

\* C23: when the output directory of a file is missing and os.makedirs fails, the
\* job reports failed without starting ffmpeg and without creating a temp file, and
\* the step changes nothing of the other jobs or of main()
C23_MakedirsFailure ==
    /\ [](\A f \in Media :
             FailedBeforeRunner(f) =>
                 /\ tool_runs[f] = 0
                 /\ fs[Temp(f)] = fs0[Temp(f)])
    /\ [][MakedirsFailureStep]_vars

\* The run got to its summary: the directory of one file could not be created and
\* the file is counted failed, its transcoder never started and no temp file made,
\* and another file was processed
C23_Witness ==
    /\ main_pc = "summary"
    /\ \E f, g \in Media :
           /\ counted_as[f] = <<"failed">>
           /\ ~raised[f]
           /\ tool_runs[f] = 0
           /\ ~Exists(fs[Temp(f)])
           /\ counted_as[g] = <<"processed">>
           /\ fs[Final(g)] = Complete(g)

(***************************************************************************)
(* The order of the steps of one job                                       *)
(***************************************************************************)
\* ffmpeg is started for f in this step
ToolStarts(f) == tool_runs'[f] # tool_runs[f]

\* the job of f ends in this step: it returns its status or lets its exception go
JobEnds(f) == job_pc[f] # "done" /\ job_pc'[f] = "done"

\* ffmpeg is started once, by a job that has its plan, whose verdict is
\* needs_processing and that none of the early returns stopped
ToolStartStep ==
    \A f \in Files :
        ToolStarts(f) =>
            /\ f \in Media
            /\ tool_runs[f] = 0
            /\ tool_runs'[f] = 1
            /\ job_pc[f] = "duration"
            /\ verdict[f] = "needs_processing"
            /\ ~dry_run
            /\ Exists(fs[Final(f)]) => force_reprocess
            /\ InputPath(f) # Final(f)

\* a job ends once, and one that started ffmpeg ends after ffmpeg has ended
JobEndStep ==
    \A f \in Files :
        /\ JobEnds(f) =>
               /\ job_pc[f] \in {"skip_logging", "logging", "duration"}
               /\ tool_runs[f] > 0 => returncode[f] # ReturnCodeNone
        /\ job_pc[f] = "done" => job_pc'[f] = "done"

Collected == {f \in Files : counted_as[f] # <<>>}

\* the files whose job has ended
Completed == {f \in Files : job_pc[f] = "done"}

\* pbar.n changes by one, in a step in which the loop handles the ended job of a file
OverallStep ==
    overall' # overall =>
        /\ overall' = overall + 1
        /\ \E f \in Completed : counted_as'[f] # counted_as[f] \/ collecting = f

\* C25: the overall bar advances by one for each ended job the loop handles
\* (returned or raised) and by nothing else; it never exceeds the number of ended
\* jobs nor of discovered files, and it equals the number of discovered files when
\* the run reaches its summary
C25_OverallProgress ==
    /\ [](/\ overall <= Cardinality(Completed)
          /\ overall <= Len(files_to_process_paths)
          /\ main_pc \notin {"interrupted", "interrupt_return"} =>
                 overall = Cardinality(Collected)
          /\ main_pc = "summary" => overall = Len(files_to_process_paths))
    /\ [][OverallStep]_vars

\* The run got to its summary with the bar at 2 of 2 files: one job raised and one
\* returned a skip
C25_Witness ==
    /\ main_pc = "summary"
    /\ overall = 2
    /\ Len(files_to_process_paths) = 2
    /\ \E f, g \in Media :
           /\ raised[f]
           /\ ~raised[g]
           /\ counted_as[g] = <<"skipped_existing">>

(***************************************************************************)
(* The log lines of a job                                                  *)
(***************************************************************************)
\* the job of f writes its file_specific_logs in this step
WritesLogBlock(f) == log_blocks'[f] # log_blocks[f]

LogBlockStep ==
    \A f \in Files :
        WritesLogBlock(f) =>
            /\ log_blocks'[f] = log_blocks[f] + 1
            /\ job_thread[f] \in tqdm_lock
            /\ JobEnds(f)

\* C26: a job that has ended, with a status or with an exception, has written its
\* log lines exactly once, in one step of the thread that held tqdm_lock, as the
\* last thing it did
C26_LogsWrittenOnce ==
    /\ [](\A f \in Files :
             /\ log_blocks[f] <= 1
             /\ job_pc[f] = "done" => log_blocks[f] = 1)
    /\ [][LogBlockStep]_vars

(***************************************************************************)
(* Downmix and the verdict                                                 *)
(***************************************************************************)
\* the 6-channel streams of the file in a target language
TargetSurround ==
    {i \in 1..Len(audio_streams_details) :
        /\ audio_streams_details[i].language \in TargetLanguages(languages_arg)
        /\ audio_streams_details[i].channels = 6}

\* C27: with downmix enabled, the plan of a file that has a 6-channel stream in a
\* target language gets the verdict needs_processing, whatever the codecs of those
\* streams are
C27_DownmixNeedsProcessing ==
    (plan_pc = "planned" /\ downmix /\ TargetSurround # {}) =>
        plan_verdict = "needs_processing"

\* A planned file, downmix enabled, whose 6-channel target streams are all ac3 or
\* eac3 already (every primary action is a copy): the verdict is needs_processing
C27_Witness ==
    /\ plan_pc = "planned"
    /\ downmix
    /\ TargetSurround # {}
    /\ \A i \in TargetSurround : audio_streams_details[i].codec_name \in {"ac3", "eac3"}
    /\ \A k \in 1..Len(audio_ops_for_ffmpeg) : audio_ops_for_ffmpeg[k].op # "transcode"
    /\ plan_verdict = "needs_processing"

(***************************************************************************)
(* The order of the pre-flight conditions                                  *)
(***************************************************************************)
\* the job of f has its plan and has taken or passed the early returns, and none
\* of its own later steps has touched its output path yet
PastPreflight(f) == job_pc[f] \in {"skip_log", "skip_logging", "duration"}

\* the four skip conditions and dry-run, as the job of f finds them
CondNoOps(f) == verdict[f] = "no_ops"
CondNoTranscode(f) == verdict[f] = "no_transcode_needed"
CondExisting(f) == Exists(fs[Final(f)]) /\ ~force_reprocess
CondIdentical(f) == InputPath(f) = Final(f)

\* C28: the outcome of the pre-flight is that of the first condition that holds, in
\* the order no_ops, no_transcode_needed, existing output, identical path,
\* dry-run; a job goes on to the transcoder (or fails to create its directory)
\* only when none holds
C28_PreflightOrder ==
    \A f \in Media :
        PastPreflight(f) =>
            /\ CondNoOps(f) => final_status[f] = "skipped_no_ops"
            /\ (~CondNoOps(f) /\ CondNoTranscode(f)) =>
                   final_status[f] = "skipped_no_transcode"
            /\ (~CondNoOps(f) /\ ~CondNoTranscode(f) /\ CondExisting(f)) =>
                   final_status[f] = "skipped_existing"
            /\ (~CondNoOps(f) /\ ~CondNoTranscode(f) /\ ~CondExisting(f)
                /\ CondIdentical(f)) =>
                   final_status[f] = "skipped_identical_path"
            /\ (~CondNoOps(f) /\ ~CondNoTranscode(f) /\ ~CondExisting(f)
                /\ ~CondIdentical(f) /\ dry_run) =>
                   (final_status[f] = "processed" /\ job_pc[f] # "duration")
            /\ (CondNoOps(f) \/ CondNoTranscode(f) \/ CondExisting(f) \/ CondIdentical(f)
                \/ dry_run) =>
                   job_pc[f] # "duration"
            /\ (dry_run /\ final_status[f] = "processed") =>
                   ~(CondNoOps(f) \/ CondNoTranscode(f) \/ CondExisting(f)
                     \/ CondIdentical(f))

\* In a dry run, a job whose plan is empty and whose output is already there is
\* about to report skipped_no_ops
C28_Witness ==
    /\ dry_run
    /\ ~force_reprocess
    /\ \E f \in Media :
           /\ job_pc[f] = "skip_logging"
           /\ verdict[f] = "no_ops"
           /\ Exists(fs[Final(f)])
           /\ final_status[f] = "skipped_no_ops"

(***************************************************************************)
(* Identical paths                                                         *)
(***************************************************************************)
\* C29: the output path of a file is never its input path, whatever the output
\* base directory is, so no job has the status skipped_identical_path and the
\* counter of that status stays 0
C29_IdenticalPathUnreachable ==
    /\ stats["skipped_identical_path"] = 0
    /\ \A f \in Media :
           /\ InputPath(f) # Final(f)
           /\ final_status[f] # "skipped_identical_path"
           /\ "skipped_identical_path" \notin {counted_as[f][k] : k \in 1..Len(counted_as[f])}

\* The run got to its summary, writing beside the input files with
\* force-reprocess: the file whose name already ends in _eac3 went past the
\* identical-path test and was processed
C29_Witness ==
    /\ main_pc = "summary"
    /\ output_directory_base = "none"
    /\ force_reprocess
    /\ \E f \in Media :
           /\ Catalog(f).name = <<"a", "_eac3">>
           /\ counted_as[f] = <<"processed">>
           /\ fs[Final(f)] = Complete(f)
    /\ stats["skipped_identical_path"] = 0

(***************************************************************************)
(* The output paths of different files                                     *)
(***************************************************************************)
\* C30: the discovered files are distinct, and the final paths and temp paths
\* resolved for two of them are four different paths, for every output base
\* directory: no two jobs write to the same temp file or rename onto the same
\* final path
C30_OutputPathsInjective ==
    \A i, j \in 1..Len(resolved) :
        i # j =>
            /\ resolved[i].filepath # resolved[j].filepath
            /\ resolved[i].final_output_filepath # resolved[j].final_output_filepath
            /\ resolved[i].temp_filepath # resolved[j].temp_filepath
            /\ resolved[i].temp_filepath # resolved[j].final_output_filepath

\* Three files resolved under a base directory of its own: two with the same name
\* in different folders, and one named like the output of another
C30_Witness ==
    /\ output_directory_base = "out"
    /\ Len(resolved) = 3
    /\ dir_listing = {1, 2, 5}

(***************************************************************************)
(* Termination                                                             *)
(***************************************************************************)
\* main() has returned
MainReturned == main_pc \in {"summary", "no_files", "no_tools"}

\* the worker threads that are in worker_id_queue.get()
TakingSlot == {t \in Threads : thr[t] = "init"}

\* every discovered file has had its job, and the loop has handled it
AllCompleted ==
    \A i \in 1..Len(files_to_process_paths) :
        /\ job_pc[files_to_process_paths[i]] = "done"
        /\ counted_as[files_to_process_paths[i]] # <<>>

\* nothing of the pool exists and no job was started
NoPool ==
    /\ \A t \in Threads : thr[t] = "none"
    /\ submitted = 0
    /\ work_queue = <<>>
    /\ worker_id_queue = <<>>
    /\ \A f \in Files : job_pc[f] = "unsubmitted"

\* C31: with no interrupt and every started tool ending, main() returns; at its
\* summary every discovered file has had its job and was handled; there is a slot
\* number in the queue for every worker that is taking one, and at most num_jobs
\* workers exist; tqdm_lock is held only by main() or by the thread of a running
\* job; and with no file discovered main() returns without a pool or a job
C31_Terminates ==
    /\ <>MainReturned
    /\ [](main_pc = "summary" => AllCompleted)
    /\ [](/\ Cardinality(TakingSlot) <= Len(worker_id_queue)
          /\ NumThreads <= num_jobs)
    /\ [](\A t \in tqdm_lock : t = MainThread \/ \E f \in Files : job_thread[f] = t)
    /\ [](main_pc = "no_files" => NoPool)

\* main() has returned from a run with two files and two workers: both workers
\* took their slot number, both jobs have ended and were handled
C31_Witness ==
    /\ main_pc = "summary"
    /\ Len(files_to_process_paths) = 2
    /\ num_jobs = 2
    /\ worker_id_queue = <<>>
    /\ NumThreads = 2
    /\ AllCompleted
    /\ tqdm_lock = {}

====
